---- MODULE Spec2Model ----
(***************************************************************************)
(* Model of the IMAP/SMTP validation microservice                          *)
(* (imap-smtp-validator/app.py, imap_error_diagnostic.py,                  *)
(* imap_diagnostic_endpoint.py).                                           *)
(*                                                                         *)
(* Text.  A Python string is a sequence of fragments; a fragment is a      *)
(* piece of text that no pattern of the program matches partially, so      *)
(* "x in s" and re.search of a literal are contiguous-subsequence tests    *)
(* and an f-string is a concatenation.  Accented letters of the source's   *)
(* literals are written without the accent.                                *)
(*                                                                         *)
(* Environment.  Every external call (DNS resolver, socket, imaplib,       *)
(* smtplib) answers with a value or raises; the answers of one handler     *)
(* run are an environment record, with "na" for calls the run does not     *)
(* reach.  A handler is an operator of its arguments and the environment   *)
(* that yields the returned value, the external calls made in order and    *)
(* the resources left open at return.                                      *)
(***************************************************************************)
EXTENDS Integers, Sequences, FiniteSets, TLC

(***************************************************************************)
(* Strings                                                                 *)
(***************************************************************************)

\* str.lower(), fragment by fragment
LowerFrag(f) ==
    CASE f = "AUTHENTICATE" -> "authenticate"
      [] f = "LOGIN" -> "login"
      [] f = "Invalid" -> "invalid"
      [] f = "Application-specific" -> "application-specific"
      [] f = "Web" -> "web"
      [] f = "Too" -> "too"
      [] f = "SYS/TEMP_FAIL" -> "sys/temp_fail"
      [] f = "LIMIT" -> "limit"
      [] f = "/MAX_CONN" -> "/max_conn"
      [] f = "START" -> "start"
      [] f = "TLS" -> "tls"
      [] f = "SSL" -> "ssl"
      [] f = "CONNECTION" -> "connection"
      [] f = "Connection" -> "connection"
      [] f = "EOF" -> "eof"
      [] f = "Errno" -> "errno"
      [] f = "ASPMX" -> "aspmx"
      [] f = "L" -> "l"
      [] f = "GOOGLE" -> "google"
      [] f = "COM" -> "com"
      [] OTHER -> f

Lower(s) == [i \in 1..Len(s) |-> LowerFrag(s[i])]

\* p in s
Contains(s, p) ==
    \E i \in 0..(Len(s) - Len(p)) : \A j \in 1..Len(p) : s[i + j] = p[j]

\* str(port)
IntStr(n) == <<ToString(n)>>

\* the index of the last occurrence of fragment f in s, 0 if none
LastIndex(s, f) ==
    IF \E i \in 1..Len(s) : s[i] = f
    THEN CHOOSE i \in 1..Len(s) : s[i] = f /\ \A j \in (i + 1)..Len(s) : s[j] # f
    ELSE 0

\* s.split('@')[-1]
AfterLastAt(s) == SubSeq(s, LastIndex(s, "@") + 1, Len(s))

\* s.capitalize() of the provider names
Capitalize_Identity(s) == s

Capitalize(s) ==
    CASE s = "gmail" -> "Gmail"
      [] s = "outlook" -> "Outlook"
      [] s = "yahoo" -> "Yahoo"
      [] s = "generic" -> "Generic"
      [] OTHER -> s

(***************************************************************************)
(* Exceptions: a raised error is [cls, text]                               *)
(***************************************************************************)

\* the direct base class of each exception class
BaseOf(c) ==
    CASE c = "IMAP4.abort" -> "IMAP4.error"
      [] c = "IMAP4.error" -> "Exception"
      [] c = "SSLError" -> "OSError"
      [] c = "timeout" -> "OSError"
      [] c = "gaierror" -> "OSError"
      [] c = "ConnectionRefusedError" -> "ConnectionError"
      [] c = "ConnectionError" -> "OSError"
      [] c = "SMTPAuthenticationError" -> "SMTPException"
      [] c = "SMTPServerDisconnected" -> "SMTPException"
      [] c = "SMTPException" -> "OSError"
      [] c = "OSError" -> "Exception"
      [] c = "NXDOMAIN" -> "Exception"
      [] c = "ValueError" -> "Exception"
      [] OTHER -> "Exception"

RECURSIVE IsInstance(_, _)
IsInstance(c, base) ==
    IF c = base THEN TRUE
    ELSE IF c = "Exception" THEN FALSE
    ELSE IsInstance(BaseOf(c), base)

Err(c, t) == [cls |-> c, text |-> t]

(***************************************************************************)
(* imap_error_diagnostic.py                                                *)
(***************************************************************************)

\* Python's None, and the truth value of an optional string
None == <<"<None>">>

Truthy(s) == s # None /\ s # << >>

Sol(a, b, c) == <<a, b, c>>

GMAIL_ERRORS ==
    << [sig |-> <<"AUTHENTICATE", " ", "failed">>,
        causa |-> "Falha na autenticacao com o Gmail",
        solucao |-> Sol("gmail-auth-1", "gmail-auth-2", "gmail-auth-3")],
       [sig |-> <<"Invalid", " ", "credentials">>,
        causa |-> "Credenciais invalidas para o Gmail",
        solucao |-> Sol("gmail-cred-1", "gmail-cred-2", "gmail-cred-3")],
       [sig |-> <<"Application-specific", " ", "password", " ", "required">>,
        causa |-> "Senha de aplicativo necessaria para o Gmail",
        solucao |-> Sol("gmail-app-1", "gmail-app-2", "gmail-app-3")],
       [sig |-> <<"Web", " ", "login", " ", "required">>,
        causa |-> "Login via navegador necessario para o Gmail",
        solucao |-> Sol("gmail-web-1", "gmail-web-2", "gmail-web-3")],
       [sig |-> <<"Too", " ", "many", " ", "simultaneous", " ", "connection", "s">>,
        causa |-> "Muitas conexoes simultaneas ao Gmail",
        solucao |-> Sol("gmail-many-1", "gmail-many-2", "gmail-many-3")] >>

OUTLOOK_ERRORS ==
    << [sig |-> <<"AUTHENTICATE", " ", "failed">>,
        causa |-> "Falha na autenticacao com o servidor Outlook/Office 365",
        solucao |-> Sol("outlook-auth-1", "outlook-auth-2", "outlook-auth-3")],
       [sig |-> <<"SYS/TEMP_FAIL">>,
        causa |-> "Falha temporaria no servidor Outlook/Office 365",
        solucao |-> <<"outlook-temp-1", "outlook-temp-2">>],
       [sig |-> <<"LIMIT", "/MAX_CONN">>,
        causa |-> "Limite de conexoes atingido no Outlook/Office 365",
        solucao |-> <<"outlook-limit-1", "outlook-limit-2">>] >>

YAHOO_ERRORS ==
    << [sig |-> <<"AUTHENTICATE", " ", "failed">>,
        causa |-> "Falha na autenticacao com o Yahoo Mail",
        solucao |-> Sol("yahoo-auth-1", "yahoo-auth-2", "yahoo-auth-3")],
       [sig |-> <<"LOGIN", " ", "failed">>,
        causa |-> "Login falhou no Yahoo Mail",
        solucao |-> Sol("yahoo-login-1", "yahoo-login-2", "yahoo-login-3")] >>

GENERIC_ERRORS ==
    << [sig |-> <<"AUTHENTICATE", " ", "failed">>,
        causa |-> "Falha na autenticacao com o servidor de email",
        solucao |-> Sol("generic-auth-1", "generic-auth-2", "generic-auth-3")],
       [sig |-> <<"LOGIN", " ", "failed">>,
        causa |-> "Falha no login IMAP",
        solucao |-> Sol("generic-login-1", "generic-login-2", "generic-login-3")],
       [sig |-> <<"START", "TLS">>,
        causa |-> "Problema na inicializacao de conexao segura STARTTLS",
        solucao |-> Sol("generic-starttls-1", "generic-starttls-2", "generic-starttls-3")],
       [sig |-> <<"socket", " ", "error">>,
        causa |-> "Erro de conexao de rede",
        solucao |-> Sol("generic-socket-1", "generic-socket-2", "generic-socket-3")],
       [sig |-> <<"connection", " ", "refused">>,
        causa |-> "Conexao recusada pelo servidor",
        solucao |-> Sol("generic-refused-1", "generic-refused-2", "generic-refused-3")],
       [sig |-> <<"CONNECTION">>,
        causa |-> "Problema de conexao com o servidor IMAP",
        solucao |-> Sol("generic-conn-1", "generic-conn-2", "generic-conn-3")],
       [sig |-> <<"timeout">>,
        causa |-> "Tempo limite excedido na conexao IMAP",
        solucao |-> Sol("generic-timeout-1", "generic-timeout-2", "generic-timeout-3")],
       [sig |-> <<"SSL">>,
        causa |-> "Problema na conexao SSL/TLS",
        solucao |-> Sol("generic-ssl-1", "generic-ssl-2", "generic-ssl-3")],
       [sig |-> <<"certificate">>,
        causa |-> "Problema com certificado SSL do servidor",
        solucao |-> Sol("generic-cert-1", "generic-cert-2", "generic-cert-3")],
       [sig |-> <<"revocation">>,
        causa |-> "Verificacao de revogacao de certificado SSL falhou",
        solucao |-> Sol("generic-revoc-1", "generic-revoc-2", "generic-revoc-3")],
       [sig |-> <<"Too", " ", "many", " ", "simultaneous", " ", "connection", "s">>,
        causa |-> "Muitas conexoes IMAP simultaneas",
        solucao |-> Sol("generic-many-1", "generic-many-2", "generic-many-3")] >>

\* each entry: the alternatives of the regular expression, and the kind
ERROR_PATTERNS ==
    << [alts |-> {<<"AUTHENTICATE", " ", "failed">>}, kind |-> "authentication"],
       [alts |-> {<<"LOGIN", " ", "failed">>}, kind |-> "authentication"],
       [alts |-> {<<"Invalid", " ", "credentials">>}, kind |-> "credentials"],
       [alts |-> {<<"password">>}, kind |-> "credentials"],
       [alts |-> {<<"Application-specific", " ", "password">>}, kind |-> "app_password"],
       [alts |-> {<<"certificate">>}, kind |-> "ssl_certificate"],
       [alts |-> {<<"SSL">>, <<"TLS">>, <<"START", "TLS">>}, kind |-> "ssl_connection"],
       [alts |-> {<<"timeout">>}, kind |-> "timeout"],
       [alts |-> {<<"Too", " ", "many", " ", "simultaneous">>}, kind |-> "rate_limit"],
       [alts |-> {<<"connection", " ", "refused">>}, kind |-> "connection_refused"],
       [alts |-> {<<"socket">>}, kind |-> "socket"],
       [alts |-> {<<"Web", " ", "login">>}, kind |-> "web_login_required"],
       [alts |-> {<<"LIMIT", "/MAX_CONN">>}, kind |-> "connection_limit"],
       [alts |-> {<<"SYS/TEMP_FAIL">>}, kind |-> "temporary_failure"],
       [alts |-> {<<"denied">>, <<"prohibited">>, <<"disallowed">>}, kind |-> "access_denied"],
       [alts |-> {<<"block", "ed">>, <<"block">>}, kind |-> "blocked"],
       [alts |-> {<<"throttl">>}, kind |-> "throttled"],
       [alts |-> {<<"banned">>}, kind |-> "banned"] >>

\* re.search(pattern, erro_str, re.IGNORECASE)
Search(alts, s) == \E a \in alts : Contains(Lower(s), Lower(a))

\* host.lower() raises AttributeError when host is None
identificar_provedor_raises(host, email) == host = None

identificar_provedor(host, email) ==
    LET h == Lower(host)
        domain == IF Truthy(email) THEN Lower(AfterLastAt(email)) ELSE << >>
    IN  IF Contains(h, <<"gmail">>) \/ Contains(h, <<"google">>)
           \/ Contains(domain, <<"gmail">>)
        THEN "gmail"
        ELSE IF Contains(h, <<"outlook">>) \/ Contains(h, <<"office365">>)
                \/ Contains(h, <<"hotmail">>) \/ Contains(h, <<"live">>)
                \/ \E d \in {<<"outlook", ".", "com">>, <<"hotmail", ".", "com">>,
                             <<"live", ".", "com">>, <<"office365", ".", "com">>,
                             <<"microsoft", ".", "com">>} : Contains(domain, d)
        THEN "outlook"
        ELSE IF Contains(h, <<"yahoo">>) \/ Contains(domain, <<"yahoo">>)
        THEN "yahoo"
        ELSE "generic"

\* The process-wide tables as they stand: KNOWN_PROVIDERS, ERROR_PATTERNS and
\* the four catalogs are module globals, built once at import; the functions
\* below read them where they stand and hand out references into them.
VARIABLE tables

\* the loop over ERROR_PATTERNS returns at a last matching pattern
PatternKind_LastMatch(hits) ==
    tables.ERROR_PATTERNS[CHOOSE i \in hits : \A j \in hits : j <= i].kind

\* the loop over ERROR_PATTERNS returns at the first matching pattern; hits
\* are the indexes of the patterns found in the text
PatternKind(hits) ==
    tables.ERROR_PATTERNS[CHOOSE i \in hits : \A j \in hits : i <= j].kind

\* the isinstance chain without its final return
CategoryKind_NoDefault(cls) ==
    IF IsInstance(cls, "IMAP4.error") THEN "imap_protocol"
    ELSE IF IsInstance(cls, "SSLError") THEN "ssl_error"
    ELSE IF IsInstance(cls, "timeout") THEN "timeout"
    ELSE IF IsInstance(cls, "OSError") THEN "socket_error"
    ELSE IF IsInstance(cls, "ConnectionRefusedError") THEN "connection_refused"
    ELSE "None"

\* the isinstance chain that classifies an error no pattern matches
CategoryKind(cls) ==
    IF IsInstance(cls, "IMAP4.error") THEN "imap_protocol"
    ELSE IF IsInstance(cls, "SSLError") THEN "ssl_error"
    ELSE IF IsInstance(cls, "timeout") THEN "timeout"
    ELSE IF IsInstance(cls, "OSError") THEN "socket_error"
    ELSE IF IsInstance(cls, "ConnectionRefusedError") THEN "connection_refused"
    ELSE "unknown"

classificar_erro_imap(erro) ==
    LET erro_str == Lower(erro.text)
        hits == {i \in 1..Len(tables.ERROR_PATTERNS) :
                     Search(tables.ERROR_PATTERNS[i].alts, erro_str)}
    IN  IF hits # {} THEN PatternKind(hits) ELSE CategoryKind(erro.cls)

obter_catalogo_provedor(provedor) ==
    CASE provedor = "gmail" -> tables.GMAIL_ERRORS
      [] provedor = "outlook" -> tables.OUTLOOK_ERRORS
      [] provedor = "yahoo" -> tables.YAHOO_ERRORS
      [] OTHER -> tables.GENERIC_ERRORS

\* the first entry of the catalog whose signature is in the text; 0 if none
CatalogHit(catalogo, erro_str) ==
    LET hits == {i \in 1..Len(catalogo) :
                    Contains(Lower(erro_str), Lower(catalogo[i].sig))}
    IN  IF hits = {} THEN 0 ELSE CHOOSE i \in hits : \A j \in hits : i <= j

DefaultDiagnostico ==
    [causa |-> "Erro IMAP nao classificado",
     solucao |-> Sol("default-credenciais", "default-configuracoes", "default-internet")]

diagnosticar_erro_imap_raises(host, email) ==
    (Truthy(host) \/ Truthy(email)) /\ identificar_provedor_raises(host, email)

\* the catalog entry for the error text: the first hit of the provider's
\* catalog (h1), else of the generic catalog (h2), else the default entry
CatalogEntry(catalogo, h1, h2) ==
    IF h1 # 0 THEN [causa |-> catalogo[h1].causa, solucao |-> catalogo[h1].solucao]
    ELSE IF h2 # 0 THEN [causa |-> tables.GENERIC_ERRORS[h2].causa,
                         solucao |-> tables.GENERIC_ERRORS[h2].solucao]
    ELSE DefaultDiagnostico

\* the generic catalog is searched when the provider's own has no hit
GenericHit_OnlyForGeneric(provedor, erro_str, h1) ==
    IF h1 = 0 /\ provedor = "generic" THEN CatalogHit(tables.GENERIC_ERRORS, erro_str) ELSE 0

GenericHit(provedor, erro_str, h1) ==
    IF h1 = 0 /\ provedor # "generic" THEN CatalogHit(tables.GENERIC_ERRORS, erro_str) ELSE 0

CatalogSearch(provedor, catalogo, erro_str) ==
    CatalogEntry(catalogo, CatalogHit(catalogo, erro_str),
                 GenericHit(provedor, erro_str, CatalogHit(catalogo, erro_str)))

\* the details added to the result for some error types
DetalhesPorTipo(erro_str, erro_type, provedor, resultado) ==
    IF erro_type = "authentication"
    THEN resultado @@ ("authentication_details" :>
             [requer_senha_app |-> Contains(Lower(erro_str), <<"app_password">>)
                                   \/ provedor = "gmail",
              verificar_2fa |-> TRUE])
    ELSE IF erro_type = "ssl_error"
    THEN resultado @@ ("ssl_details" :>
             [verificar_certificado |-> Contains(Lower(erro_str), <<"certificate">>),
              verificar_porta_ssl |-> TRUE])
    ELSE IF erro_type = "connection_refused"
    THEN resultado @@ ("connection_details" :>
             [verificar_firewall |-> TRUE, verificar_ip_bloqueado |-> TRUE])
    ELSE resultado

Resultado(erro, erro_type, provedor, diagnostico) ==
    DetalhesPorTipo(erro.text, erro_type, provedor,
                    [erro_original |-> erro.text,
                     tipo_erro |-> erro_type,
                     provedor |-> provedor,
                     causa |-> diagnostico.causa,
                     solucoes |-> diagnostico.solucao,
                     detalhes_tecnicos |-> [classe_erro |-> erro.cls]])

\* the diagnosis once the error type and the provider are known
Diagnosticar(erro, erro_type, provedor) ==
    Resultado(erro, erro_type, provedor,
              CatalogSearch(provedor, obter_catalogo_provedor(provedor), erro.text))

diagnosticar_erro_imap(erro, host, email) ==
    Diagnosticar(erro, classificar_erro_imap(erro),
                 IF Truthy(host) \/ Truthy(email)
                 THEN identificar_provedor(host, email) ELSE "generic")

verificar_erro_comum(host, erro_str) ==
    LET erro_lower == Lower(erro_str)
        has(w) == Contains(erro_lower, w)
    IN  IF has(<<"certificate">>) /\ has(<<"verify">>)
        THEN [problema_comum |-> TRUE, tipo |-> "certificado_ssl",
              solucao |-> <<"Em ambiente de desenvolvimento, voce pode desabilitar temporariamente a verificacao de certificado">>]
        ELSE IF (has(<<"access">>) /\ has(<<"denied">>)) \/ has(<<"block", "ed">>)
        THEN [problema_comum |-> TRUE, tipo |-> "bloqueio_acesso",
              solucao |-> <<"Alguns provedores bloqueiam acessos de determinadas regioes ou IPs. Tente usar um proxy ou VPN.">>]
        ELSE IF has(<<"too", " ", "many">>) \/ has(<<"rate">>) \/ has(<<"limit">>)
        THEN [problema_comum |-> TRUE, tipo |-> "rate_limiting",
              solucao |-> <<"Reduza o numero de tentativas ou aguarde alguns minutos antes de tentar novamente">>]
        ELSE IF has(<<"resolve">>) \/ has(<<"dns">>)
        THEN [problema_comum |-> TRUE, tipo |-> "problema_dns",
              solucao |-> <<"Verifique se o host '">> \o host
                          \o <<"' esta correto e pode ser resolvido pela rede">>]
        ELSE [problema_comum |-> FALSE]

gerar_mensagem_amigavel(diagnostico) ==
    LET tipo_erro == diagnostico.tipo_erro
        provedor == Capitalize(diagnostico.provedor)
    IN  IF tipo_erro = "authentication"
        THEN <<"Erro de autenticacao com ", provedor, ": ", diagnostico.causa, ". ",
               "Verifique suas credenciais e configuracoes de seguranca da conta.">>
        ELSE IF tipo_erro = "credentials"
        THEN IF provedor = "Gmail"
             THEN <<"Credenciais invalidas para ", provedor,
                    ". Se voce usa autenticacao de dois fatores, certifique-se de usar uma ",
                    "senha de aplicativo", " no formato correto (xxxx xxxx xxxx xxxx).">>
             ELSE <<"Credenciais invalidas para ", provedor, ". Verifique seu email e senha.">>
        ELSE IF tipo_erro = "app_password"
        THEN <<"E necessario usar uma ", "senha de aplicativo", " para ", provedor, ". ",
               "Ative a verificacao em duas etapas e crie uma ", "senha de aplicativo",
               " especifica.">>
        ELSE IF tipo_erro = "ssl_connection"
        THEN <<"Erro na conexao segura com ", provedor, ". ",
               "Verifique as configuracoes SSL/TLS e a porta do servidor.">>
        ELSE IF tipo_erro = "timeout"
        THEN <<"Tempo limite excedido ao conectar com ", provedor, ". ",
               "Verifique sua conexao de internet ou tente novamente mais tarde.">>
        ELSE IF tipo_erro = "connection_refused"
        THEN <<"Conexao recusada pelo servidor ", provedor, ". ",
               "Verifique se o servidor esta online e se as configuracoes de host e porta estao corretas.">>
        ELSE <<"Erro ao conectar com ", provedor, ": ", diagnostico.causa, ". ",
               "Verifique as configuracoes e tente novamente.">>

\* the sanitized error built from the diagnosis and the common-issue check
Sanitizado_Replaces(diagnostico, erro_comum) ==
    LET resultado == [error_type |-> diagnostico.tipo_erro,
                      message |-> gerar_mensagem_amigavel(diagnostico),
                      solutions |-> diagnostico.solucoes,
                      technical_details |->
                          [provider |-> diagnostico.provedor,
                           error_class |-> diagnostico.detalhes_tecnicos.classe_erro]]
    IN  IF erro_comum.problema_comum
        THEN [resultado EXCEPT !.solutions = <<erro_comum.solucao>>] @@ ("common_issue" :>
                 [type |-> erro_comum.tipo, solution |-> erro_comum.solucao])
        ELSE resultado

Sanitizado(diagnostico, erro_comum) ==
    LET resultado == [error_type |-> diagnostico.tipo_erro,
                      message |-> gerar_mensagem_amigavel(diagnostico),
                      solutions |-> diagnostico.solucoes,
                      technical_details |->
                          [provider |-> diagnostico.provedor,
                           error_class |-> diagnostico.detalhes_tecnicos.classe_erro]]
    IN  IF erro_comum.problema_comum
        THEN resultado @@ ("common_issue" :>
                 [type |-> erro_comum.tipo, solution |-> erro_comum.solucao])
        ELSE resultado

sanitizar_erro_imap(erro, host, email) ==
    Sanitizado(diagnosticar_erro_imap(erro, host, email),
               verificar_erro_comum(host, erro.text))

(***************************************************************************)
(* The answers of the external collaborators                               *)
(***************************************************************************)

NoErr == Err("none", << >>)

\* an answer: k is "ok", a status word, "raise" or "na" (call not reached)
Ans(k, code, err) == [k |-> k, code |-> code, err |-> err]

NA == Ans("na", 0, NoErr)

OK == Ans("ok", 0, NoErr)

Raise(c, t) == Ans("raise", 0, Err(c, t))

\* one operation of the log: protocol, call, and the timeout handed to it
\* (NoTimeout when the call is given none)
NoTimeout == 0

Op(p, op, t) == [p |-> p, op |-> op, t |-> t]

(***************************************************************************)
(* app.py                                                                  *)
(***************************************************************************)

DEFAULT_TIMEOUT == 10

KNOWN_PROVIDERS ==
    [gmail |->
        [imap |-> [host |-> <<"imap", ".", "gmail", ".", "com">>, port |-> 993, secure |-> TRUE],
         smtp |-> [host |-> <<"smtp", ".", "gmail", ".", "com">>, port |-> 587,
                   secure |-> FALSE, starttls |-> TRUE],
         password_pattern |-> "^[a-z]{4} [a-z]{4} [a-z]{4} [a-z]{4}$",
         password_instructions |-> "Para contas Gmail, use uma Senha de Aplicativo no formato: xxxx xxxx xxxx xxxx"],
     outlook |->
        [imap |-> [host |-> <<"outlook", ".", "office365", ".", "com">>, port |-> 993, secure |-> TRUE],
         smtp |-> [host |-> <<"smtp", ".", "office365", ".", "com">>, port |-> 587,
                   secure |-> FALSE, starttls |-> TRUE]],
     yahoo |->
        [imap |-> [host |-> <<"imap", ".", "mail", ".", "yahoo", ".", "com">>, port |-> 993, secure |-> TRUE],
         smtp |-> [host |-> <<"smtp", ".", "mail", ".", "yahoo", ".", "com">>, port |-> 587,
                   secure |-> FALSE, starttls |-> TRUE],
         password_instructions |-> "Para contas Yahoo, habilite o acesso a apps e use uma senha de aplicativo"],
     hotmail |->
        [imap |-> [host |-> <<"outlook", ".", "office365", ".", "com">>, port |-> 993, secure |-> TRUE],
         smtp |-> [host |-> <<"smtp", ".", "office365", ".", "com">>, port |-> 587,
                   secure |-> FALSE, starttls |-> TRUE]]]

\* the tables as the import of the modules leaves them
Tables ==
    [KNOWN_PROVIDERS |-> KNOWN_PROVIDERS,
     ERROR_PATTERNS |-> ERROR_PATTERNS,
     GMAIL_ERRORS |-> GMAIL_ERRORS,
     OUTLOOK_ERRORS |-> OUTLOOK_ERRORS,
     YAHOO_ERRORS |-> YAHOO_ERRORS,
     GENERIC_ERRORS |-> GENERIC_ERRORS]

\* the known provider whose name is in the domain, tried in another order
DomainProvider_YahooFirst(domain) ==
    IF Contains(domain, <<"yahoo">>) THEN "yahoo"
    ELSE IF Contains(domain, <<"outlook">>) \/ Contains(domain, <<"hotmail">>)
            \/ Contains(domain, <<"live">>)
    THEN "outlook"
    ELSE IF Contains(domain, <<"gmail">>) THEN "gmail"
    ELSE "none"

\* the known provider whose name is in the domain of the address
DomainProvider(domain) ==
    IF Contains(domain, <<"gmail">>) THEN "gmail"
    ELSE IF Contains(domain, <<"outlook">>) \/ Contains(domain, <<"hotmail">>)
            \/ Contains(domain, <<"live">>)
    THEN "outlook"
    ELSE IF Contains(domain, <<"yahoo">>) THEN "yahoo"
    ELSE "none"

\* the known provider inferred from the first MX record
MxProvider(mx_record) ==
    IF Contains(mx_record, <<"google">>) \/ Contains(mx_record, <<"gmail">>) THEN "gmail"
    ELSE IF Contains(mx_record, <<"outlook">>) \/ Contains(mx_record, <<"microsoft">>)
    THEN "outlook"
    ELSE IF Contains(mx_record, <<"yahoo">>) THEN "yahoo"
    ELSE "none"

\* the default profile with the plain IMAP port
DefaultProfile_PlainPort(domain) ==
    [imap |-> [host |-> <<"imap", ".">> \o domain, port |-> 143, secure |-> FALSE],
     smtp |-> [host |-> <<"smtp", ".">> \o domain, port |-> 587,
               secure |-> FALSE, starttls |-> TRUE],
     detected |-> "auto"]

\* the profile returned when nothing is detected
DefaultProfile(domain) ==
    [imap |-> [host |-> <<"imap", ".">> \o domain, port |-> 993, secure |-> TRUE],
     smtp |-> [host |-> <<"smtp", ".">> \o domain, port |-> 587,
               secure |-> FALSE, starttls |-> TRUE],
     detected |-> "auto"]

\* mx: the answer of resolve(domain, 'MX'): "ok" with mx.exchange being
\* str(result[0].exchange), "empty" or "raise".
\* Yields the profile and whether the MX lookup was made.
detect_provider_config(email, mx) ==
    LET domain == Lower(AfterLastAt(email))
        by_domain == DomainProvider(domain)
        by_mx == IF mx.k = "ok" THEN MxProvider(mx.exchange) ELSE "none"
    IN  IF by_domain # "none"
        THEN [ret |-> tables.KNOWN_PROVIDERS[by_domain], mx_queried |-> FALSE]
        ELSE IF by_mx # "none"
        THEN [ret |-> tables.KNOWN_PROVIDERS[by_mx], mx_queried |-> TRUE]
        ELSE [ret |-> DefaultProfile(domain), mx_queried |-> TRUE]

HostPort(host, port) == host \o <<":">> \o IntStr(port)

\* dns: the answer of resolve(host, 'A'): "ok" (addresses), "empty", "raise"
check_dns(host, dns) ==
    IF dns.k = "ok"
    THEN [success |-> TRUE,
          message |-> <<"Servidor ">> \o host \o <<" encontrado via DNS">>,
          addresses |-> <<"192.0.2.1">>]
    ELSE IF dns.k = "empty"
    THEN [success |-> FALSE,
          message |-> <<"Nao foi possivel resolver o servidor ">> \o host \o <<" via DNS">>]
    ELSE [success |-> FALSE,
          message |-> <<"Erro ao resolver DNS para ">> \o host \o <<": ">> \o dns.err.text]

\* tcp: the answer of connect_ex: "ok" with its return code, or "raise".
\* settimeout raises ValueError for a negative timeout.
\* Yields the result and whether the socket is still open at return.
test_network_connection(host, port, timeout, tcp) ==
    LET hp == HostPort(host, port)
        result == tcp.code
    IN  IF timeout < 0
        THEN [ret |-> [success |-> FALSE,
                       message |-> <<"Erro ao conectar com ">> \o hp \o <<": ">>
                                   \o <<"Timeout value out of range">>],
              connected |-> FALSE, sock_open |-> TRUE]
        ELSE IF tcp.k = "raise"
        THEN [ret |-> [success |-> FALSE,
                       message |-> <<"Erro ao conectar com ">> \o hp \o <<": ">> \o tcp.err.text],
              connected |-> TRUE, sock_open |-> TRUE]
        ELSE IF result = 0
        THEN [ret |-> [success |-> TRUE,
                       message |-> <<"Conexao com ">> \o hp \o <<" estabelecida com sucesso">>],
              connected |-> TRUE, sock_open |-> FALSE]
        ELSE [ret |-> [success |-> FALSE,
                       message |->
                           IF result = 111
                           THEN <<"Conexao recusada por ">> \o hp
                                \o <<" - verifique se o servidor esta online">>
                           ELSE IF result = 110 \/ result = 10060
                           THEN <<"Tempo limite excedido ao conectar a ">> \o hp
                           ELSE <<"Nao foi possivel conectar a ">> \o hp
                                \o <<" - Erro: ">> \o IntStr(result)],
              connected |-> TRUE, sock_open |-> FALSE]

\* the result of a driver whose DNS check failed
DnsStageFailure_WrongStage(dns_check) ==
    [success |-> FALSE,
     message |-> <<"Falha na resolucao DNS: ">> \o dns_check.message,
     stage |-> "network",
     details |-> dns_check]

DnsStageFailure(dns_check) ==
    [success |-> FALSE,
     message |-> <<"Falha na resolucao DNS: ">> \o dns_check.message,
     stage |-> "dns",
     details |-> dns_check]

\* the result of a driver whose TCP check failed
NetStageFailure_NoDetail(net_check) ==
    [success |-> FALSE,
     message |-> <<"Falha na conexao de rede">>,
     stage |-> "network",
     details |-> net_check]

NetStageFailure(net_check) ==
    [success |-> FALSE,
     message |-> <<"Falha na conexao de rede: ">> \o net_check.message,
     stage |-> "network",
     details |-> net_check]

\* the mailbox names parsed from the LIST reply: an entry is
\* [isbytes, utf8, parts], parts being decoded.split(' "." ') with each
\* part [quoted, name]; strip('"') drops the quotes
ParseMailboxes(mailbox_list) ==
    LET good(m) == m.isbytes /\ m.utf8 /\ Len(m.parts) > 1
        kept == SelectSeq(mailbox_list, good)
    IN  [i \in 1..Len(kept) |-> kept[i].parts[2].name]

\* the result of the last except clause of test_imap_connection
ImapOtherFailure_Bare(diagnostico) ==
    [success |-> FALSE,
     message |-> diagnostico.message,
     stage |-> "connection"]

ImapOtherFailure(diagnostico) ==
    [success |-> FALSE,
     message |-> diagnostico.message,
     stage |-> "connection",
     error_type |-> "unknown",
     solutions |-> diagnostico.solutions,
     diagnostic_info |-> diagnostico]

\* the except clauses of test_imap_connection, in order; diagnostico is
\* sanitizar_erro_imap(e, host, email)
ImapExcept(e, diagnostico) ==
    IF IsInstance(e.cls, "IMAP4.error")
    THEN [success |-> FALSE,
          message |-> diagnostico.message,
          stage |-> IF diagnostico.error_type \in {"authentication", "credentials",
                                                   "app_password"}
                    THEN "authentication" ELSE "protocol",
          error_type |-> diagnostico.error_type,
          solutions |-> diagnostico.solutions,
          diagnostic_info |-> diagnostico]
    ELSE IF IsInstance(e.cls, "SSLError")
    THEN [success |-> FALSE,
          message |-> diagnostico.message,
          stage |-> "ssl",
          error_type |-> "ssl_error",
          solutions |-> diagnostico.solutions,
          diagnostic_info |-> diagnostico]
    ELSE IF \E b \in {"timeout", "OSError", "ConnectionRefusedError", "ConnectionError"} :
                IsInstance(e.cls, b)
    THEN [success |-> FALSE,
          message |-> diagnostico.message,
          stage |-> "connection",
          error_type |-> diagnostico.error_type,
          solutions |-> diagnostico.solutions,
          diagnostic_info |-> diagnostico]
    ELSE ImapOtherFailure(diagnostico)

ImapFailure(e, host, email) == ImapExcept(e, sanitizar_erro_imap(e, host, email))

\* the outcome of a handler run: returned value, whether an exception left
\* the handler instead, the external calls made, the resources still open
Run(ret, raised, ops, open) == [ret |-> ret, raised |-> raised, ops |-> ops, open |-> open]

NoRet == [success |-> FALSE]

\* the run when the try block of test_imap_connection raises e and no
\* except clause returns a result
ImapCaught_Propagates(e, host, email, ops, open) == Run(NoRet, TRUE, ops, open)

\* the run when the try block of test_imap_connection raises e
ImapCaught(e, host, email, ops, open) ==
    IF diagnosticar_erro_imap_raises(host, email)
    THEN Run(NoRet, TRUE, ops, open)
    ELSE Run(ImapFailure(e, host, email), FALSE, ops, open)

\* env: the answers to resolve (dns), connect_ex (tcp), IMAP4/IMAP4_SSL
\* (open), login, list (with its reply, boxes), select and logout
test_imap_connection(email, password, host, port, secure, timeout, env) ==
    LET P == "imap"
        dns_check == check_dns(host, env.dns)
        net == test_network_connection(host, port, timeout, env.tcp)
        net_check == net.ret
        sock == IF net.sock_open THEN {"imap_socket"} ELSE {}
        o1 == <<Op(P, "dns", NoTimeout)>>
        o2 == IF net.connected THEN o1 \o <<Op(P, "tcp", timeout)>> ELSE o1
        o3 == o2 \o <<Op(P, IF secure THEN "open_ssl" ELSE "open", timeout)>>
        o4 == o3 \o <<Op(P, "login", NoTimeout)>>
        o5 == o4 \o <<Op(P, "list", NoTimeout)>>
        o6 == o5 \o <<Op(P, "select", NoTimeout)>>
        o7 == o6 \o <<Op(P, "logout", NoTimeout)>>
        sess == {"imap_session"}
        mailboxes == IF env.list.k = "OK" THEN ParseMailboxes(env.boxes) ELSE << >>
    IN  IF ~dns_check.success
        THEN Run(DnsStageFailure(dns_check), FALSE, o1, {})
        ELSE IF ~net_check.success
        THEN Run(NetStageFailure(net_check), FALSE, o2, sock)
        ELSE IF env.open.k = "raise"
        THEN ImapCaught(env.open.err, host, email, o3, {})
        ELSE IF env.login.k = "raise"
        THEN ImapCaught(env.login.err, host, email, o4, sess)
        ELSE IF env.list.k = "raise"
        THEN ImapCaught(env.list.err, host, email, o5, sess)
        ELSE IF env.select.k = "raise"
        THEN ImapCaught(env.select.err, host, email, o6, sess)
        ELSE Run([success |-> TRUE,
                  message |-> <<"Conexao IMAP com ">> \o HostPort(host, port)
                              \o <<" estabelecida com sucesso">>,
                  mailboxes |-> mailboxes,
                  stage |-> "authenticated"], FALSE, o7,
                 IF env.logout.k = "raise" THEN sess ELSE {})

\* the except clauses of test_smtp_connection, in order
SmtpFailure(a) ==
    LET e == a.err
    IN  IF IsInstance(e.cls, "SMTPAuthenticationError")
        THEN [success |-> FALSE,
              message |-> <<"Falha na autenticacao SMTP: ">> \o e.text,
              stage |-> "authentication",
              error_type |-> "credentials",
              error_code |-> a.code]
        ELSE IF IsInstance(e.cls, "SMTPException")
        THEN [success |-> FALSE,
              message |-> <<"Erro SMTP: ">> \o e.text,
              stage |-> "protocol",
              error_type |-> "protocol_error"]
        ELSE IF IsInstance(e.cls, "SSLError")
        THEN [success |-> FALSE,
              message |-> <<"Erro SSL na conexao SMTP: ">> \o e.text,
              stage |-> "ssl",
              error_type |-> "ssl_error"]
        ELSE [success |-> FALSE,
              message |-> <<"Erro ao conectar via SMTP: ">> \o e.text,
              stage |-> "connection",
              error_type |-> "unknown"]

UseStarttls_Always(secure, starttls) == starttls

\* whether test_smtp_connection upgrades the session: starttls and not secure
UseStarttls(secure, starttls) == starttls /\ ~secure

\* env: the answers to resolve (dns), connect_ex (tcp), SMTP/SMTP_SSL (open),
\* ehlo, starttls, the second ehlo (ehlo2), login and quit
test_smtp_connection(email, password, host, port, secure, starttls, timeout, env) ==
    LET P == "smtp"
        dns_check == check_dns(host, env.dns)
        net == test_network_connection(host, port, timeout, env.tcp)
        net_check == net.ret
        sock == IF net.sock_open THEN {"smtp_socket"} ELSE {}
        tls == UseStarttls(secure, starttls)
        o1 == <<Op(P, "dns", NoTimeout)>>
        o2 == IF net.connected THEN o1 \o <<Op(P, "tcp", timeout)>> ELSE o1
        o3 == o2 \o <<Op(P, IF secure THEN "open_ssl" ELSE "open", timeout)>>
        o4 == o3 \o <<Op(P, "ehlo", NoTimeout)>>
        o5 == IF tls THEN o4 \o <<Op(P, "starttls", NoTimeout)>> ELSE o4
        o6 == IF tls THEN o5 \o <<Op(P, "ehlo", NoTimeout)>> ELSE o4
        o7 == o6 \o <<Op(P, "login", NoTimeout)>>
        o8 == o7 \o <<Op(P, "quit", NoTimeout)>>
        sess == {"smtp_session"}
    IN  IF ~dns_check.success
        THEN Run(DnsStageFailure(dns_check), FALSE, o1, {})
        ELSE IF ~net_check.success
        THEN Run(NetStageFailure(net_check), FALSE, o2, sock)
        ELSE IF env.open.k = "raise"
        THEN Run(SmtpFailure(env.open), FALSE, o3, {})
        ELSE IF env.ehlo.k = "raise"
        THEN Run(SmtpFailure(env.ehlo), FALSE, o4, sess)
        ELSE IF tls /\ env.starttls.k = "raise"
        THEN Run(SmtpFailure(env.starttls), FALSE, o5, sess)
        ELSE IF tls /\ env.ehlo2.k = "raise"
        THEN Run(SmtpFailure(env.ehlo2), FALSE, o6, sess)
        ELSE IF env.login.k = "raise"
        THEN Run(SmtpFailure(env.login), FALSE, o7, sess)
        ELSE IF env.quit.k = "raise"
        THEN Run(SmtpFailure(env.quit), FALSE, o8, sess)
        ELSE Run([success |-> TRUE,
                  message |-> <<"Conexao SMTP com ">> \o HostPort(host, port)
                              \o <<" estabelecida com sucesso">>,
                  extensions |-> <<"size", "auth">>,
                  stage |-> "authenticated"], FALSE, o8, {})

\* a JSON request body is a function from its keys; d.get(k, default)
Get(data, k, default) == IF k \in DOMAIN data THEN data[k] ELSE default

\* a JSON scalar handed to int(): [num, v]; int() raises ValueError unless num
Num(n) == [num |-> TRUE, v |-> n]

NotNum == [num |-> FALSE, v |-> 0]

NoneDict == [none |-> TRUE]

IsNone(x) == "none" \in DOMAIN x

ImapNA ==
    [dns |-> NA, tcp |-> NA, open |-> NA, login |-> NA, list |-> NA,
     boxes |-> << >>, select |-> NA, logout |-> NA]

SmtpNA ==
    [dns |-> NA, tcp |-> NA, open |-> NA, ehlo |-> NA, starttls |-> NA,
     ehlo2 |-> NA, login |-> NA, quit |-> NA]

NoRun == Run(NoRet, FALSE, << >>, {})

InternalError ==
    [status |-> 500,
     body |-> [success |-> FALSE,
               message |-> <<"Erro interno do servidor: ">>,
               details |-> << >>]]

\* the overall success when both drivers ran
BothSucceeded_Either(imap_result, smtp_result) == imap_result.success \/ smtp_result.success

BothSucceeded(imap_result, smtp_result) == imap_result.success /\ smtp_result.success

\* the overall message when both drivers ran
BothMessage_Swapped(success, imap_result, smtp_result) ==
    IF success
    THEN <<"Servidores IMAP e SMTP acessiveis e autenticacao bem-sucedida">>
    ELSE IF ~imap_result.success /\ ~smtp_result.success
    THEN <<"Falha no acesso aos servidores IMAP e SMTP">>
    ELSE IF ~imap_result.success
    THEN <<"Falha no acesso ao servidor SMTP, IMAP acessivel">>
    ELSE <<"Falha no acesso ao servidor IMAP, SMTP acessivel">>

BothMessage(success, imap_result, smtp_result) ==
    IF success
    THEN <<"Servidores IMAP e SMTP acessiveis e autenticacao bem-sucedida">>
    ELSE IF ~imap_result.success /\ ~smtp_result.success
    THEN <<"Falha no acesso aos servidores IMAP e SMTP">>
    ELSE IF ~imap_result.success
    THEN <<"Falha no acesso ao servidor IMAP, SMTP acessivel">>
    ELSE <<"Falha no acesso ao servidor SMTP, IMAP acessivel">>

\* the aggregation at the end of test_connection
Aggregate(test_imap, test_smtp, imap_result, smtp_result) ==
    IF test_imap /\ test_smtp
    THEN LET success == BothSucceeded(imap_result, smtp_result)
         IN  [success |-> success,
              message |-> BothMessage(success, imap_result, smtp_result)]
    ELSE IF test_imap
    THEN [success |-> imap_result.success, message |-> imap_result.message]
    ELSE IF test_smtp
    THEN [success |-> smtp_result.success, message |-> smtp_result.message]
    ELSE [success |-> FALSE, message |-> <<"Nenhum teste solicitado">>]

\* the endpoint settings test_connection uses: detected, overridden by the
\* request's own fields, or the request's fields alone
SettingsFrom_DetectedWins(data, det) ==
    LET detect_settings == Get(data, "autodetect", TRUE)
        all_given == {"imapHost", "imapPort", "smtpHost", "smtpPort"} \subseteq DOMAIN data
        detect == ~all_given \/ detect_settings
        provider_settings == det.ret
        iport == IF detect THEN Get(data, "imapPort", Num(provider_settings.imap.port))
                 ELSE data.imapPort
        sport == IF detect THEN Get(data, "smtpPort", Num(provider_settings.smtp.port))
                 ELSE data.smtpPort
    IN  [detect |-> detect,
         mx_queried |-> detect /\ det.mx_queried,
         fault |-> ~iport.num \/ ~sport.num,
         imap_host |-> IF detect THEN provider_settings.imap.host
                       ELSE data.imapHost,
         imap_port |-> iport.v,
         imap_secure |-> IF detect THEN Get(data, "imapSecure", provider_settings.imap.secure)
                         ELSE Get(data, "imapSecure", iport.v = 993),
         smtp_host |-> IF detect THEN Get(data, "smtpHost", provider_settings.smtp.host)
                       ELSE data.smtpHost,
         smtp_port |-> sport.v,
         smtp_secure |-> IF detect THEN Get(data, "smtpSecure", provider_settings.smtp.secure)
                         ELSE Get(data, "smtpSecure", sport.v = 465),
         smtp_starttls |-> IF detect
                           THEN Get(data, "smtpStartTLS", provider_settings.smtp.starttls)
                           ELSE Get(data, "smtpStartTLS", sport.v = 587)]

SettingsFrom(data, det) ==
    LET detect_settings == Get(data, "autodetect", TRUE)
        all_given == {"imapHost", "imapPort", "smtpHost", "smtpPort"} \subseteq DOMAIN data
        detect == ~all_given \/ detect_settings
        provider_settings == det.ret
        iport == IF detect THEN Get(data, "imapPort", Num(provider_settings.imap.port))
                 ELSE data.imapPort
        sport == IF detect THEN Get(data, "smtpPort", Num(provider_settings.smtp.port))
                 ELSE data.smtpPort
    IN  [detect |-> detect,
         mx_queried |-> detect /\ det.mx_queried,
         fault |-> ~iport.num \/ ~sport.num,
         imap_host |-> IF detect THEN Get(data, "imapHost", provider_settings.imap.host)
                       ELSE data.imapHost,
         imap_port |-> iport.v,
         imap_secure |-> IF detect THEN Get(data, "imapSecure", provider_settings.imap.secure)
                         ELSE Get(data, "imapSecure", iport.v = 993),
         smtp_host |-> IF detect THEN Get(data, "smtpHost", provider_settings.smtp.host)
                       ELSE data.smtpHost,
         smtp_port |-> sport.v,
         smtp_secure |-> IF detect THEN Get(data, "smtpSecure", provider_settings.smtp.secure)
                         ELSE Get(data, "smtpSecure", sport.v = 465),
         smtp_starttls |-> IF detect
                           THEN Get(data, "smtpStartTLS", provider_settings.smtp.starttls)
                           ELSE Get(data, "smtpStartTLS", sport.v = 587)]

Settings(data, mx) == SettingsFrom(data, detect_provider_config(data.email, mx))

\* whether test_connection calls the SMTP driver: it is requested, and the
\* IMAP driver returned
RunSmtp_AbortAfterImapFailure(test_smtp, irun) ==
    test_smtp /\ ~irun.raised /\ (irun.ops = << >> \/ irun.ret.success)

RunSmtp(test_smtp, irun) == test_smtp /\ ~irun.raised

\* the body of the 200 response of test_connection
Results(test_imap, test_smtp, st, imap_result, smtp_result, agg) ==
    [success |-> agg.success,
     message |-> agg.message,
     details |->
        [imap |-> IF test_imap THEN imap_result ELSE NoneDict,
         smtp |-> IF test_smtp THEN smtp_result ELSE NoneDict,
         diagnostics |->
            [imap_error |->
                IF test_imap /\ ~imap_result.success
                   /\ "diagnostic_info" \in DOMAIN imap_result
                THEN [solutions |-> imap_result.solutions,
                      error_type |-> imap_result.error_type,
                      details |-> imap_result.diagnostic_info]
                ELSE NoneDict,
             smtp_error |-> NoneDict],
         detected_settings |->
            [imap |-> [host |-> st.imap_host, port |-> st.imap_port,
                       secure |-> st.imap_secure],
             smtp |-> [host |-> st.smtp_host, port |-> st.smtp_port,
                       secure |-> st.smtp_secure, starttls |-> st.smtp_starttls]],
         connectionType |-> "real"]]

\* the end of test_connection, irun and srun being the runs of the drivers
Conclude(test_imap, test_smtp, st, mxop, irun, srun) ==
    IF irun.raised \/ srun.raised
    THEN Run(InternalError, FALSE, mxop \o irun.ops \o srun.ops, irun.open \cup srun.open)
    ELSE Run([status |-> 200,
              body |-> Results(test_imap, test_smtp, st, irun.ret, srun.ret,
                               Aggregate(test_imap, test_smtp, irun.ret, srun.ret))],
             FALSE, mxop \o irun.ops \o srun.ops, irun.open \cup srun.open)

\* the SMTP test of test_connection, irun being the run of the IMAP driver
SmtpTest(data, st, timeout, test_imap, test_smtp, mxop, irun, senv) ==
    Conclude(test_imap, test_smtp, st, mxop, irun,
             IF RunSmtp(test_smtp, irun)
             THEN test_smtp_connection(data.email, data.password, st.smtp_host,
                                       st.smtp_port, st.smtp_secure, st.smtp_starttls,
                                       timeout, senv)
             ELSE NoRun)

\* test_connection once the settings st and the timeout tm are read
Tests(data, st, tm, ienv, senv) ==
    LET test_imap == Get(data, "testImap", TRUE)
        test_smtp == Get(data, "testSmtp", TRUE)
        mxop == IF st.mx_queried THEN <<Op("dns", "mx", NoTimeout)>> ELSE << >>
    IN  IF st.fault \/ ~tm.num
        THEN Run(InternalError, FALSE, mxop, {})
        ELSE SmtpTest(data, st, tm.v, test_imap, test_smtp, mxop,
                      IF test_imap
                      THEN test_imap_connection(data.email, data.password, st.imap_host,
                                                st.imap_port, st.imap_secure, tm.v, ienv)
                      ELSE NoRun,
                      senv)

\* POST /api/test-connection.  mx, ienv, senv: the answers to the MX lookup
\* and to the calls of the two drivers
test_connection(data, mx, ienv, senv) ==
    IF ~({"email", "password"} \subseteq DOMAIN data)
    THEN Run([status |-> 400,
              body |-> [success |-> FALSE,
                        message |-> <<"Parametros incompletos. E necessario fornecer email e password.">>]],
             FALSE, << >>, {})
    ELSE Tests(data, Settings(data, mx), Get(data, "timeout", Num(DEFAULT_TIMEOUT)),
               ienv, senv)

\* POST /api/check-server: DNS check, then the TCP check when a port is given
check_server(data, dns, tcp) ==
    IF "host" \notin DOMAIN data
    THEN Run([status |-> 400,
              body |-> [success |-> FALSE, message |-> <<"Parametro host e obrigatorio">>]],
             FALSE, << >>, {})
    ELSE
    LET host == data.host
        pt == Get(data, "port", Num(0))
        port == pt.v
        dns_result == check_dns(host, dns)
        net == test_network_connection(host, port, DEFAULT_TIMEOUT, tcp)
        net_result == net.ret
        o1 == <<Op("check", "dns", NoTimeout)>>
    IN  IF ~pt.num
        THEN Run([status |-> 500,
                  body |-> [success |-> FALSE, message |-> <<"Erro interno do servidor: ">>]],
                 FALSE, << >>, {})
        ELSE IF port > 0 /\ dns_result.success
        THEN Run([status |-> 200,
                  body |-> [success |-> dns_result.success /\ net_result.success,
                            message |-> IF ~net_result.success THEN net_result.message
                                        ELSE dns_result.message,
                            dns |-> dns_result,
                            network |-> net_result]],
                 FALSE,
                 IF net.connected THEN o1 \o <<Op("check", "tcp", DEFAULT_TIMEOUT)>> ELSE o1,
                 IF net.sock_open THEN {"check_socket"} ELSE {})
        ELSE Run([status |-> 200,
                  body |-> [success |-> dns_result.success,
                            message |-> dns_result.message,
                            dns |-> dns_result]],
                 FALSE, o1, {})

\* the provider named in the response of verify_email_domain: by the domain,
\* else by the lower-cased exchange of the first MX record of its own lookup
ProviderName(domain, mx_records) ==
    LET mx_domain == Lower(mx_records[1].exchange)
    IN  IF Contains(domain, <<"gmail">>) THEN "Gmail"
        ELSE IF Contains(domain, <<"outlook">>) \/ Contains(domain, <<"hotmail">>)
                \/ Contains(domain, <<"live">>)
        THEN "Outlook/Microsoft"
        ELSE IF Contains(domain, <<"yahoo">>) THEN "Yahoo"
        ELSE IF mx_records = << >> THEN "Desconhecido"
        ELSE IF Contains(mx_domain, <<"google">>) \/ Contains(mx_domain, <<"gmail">>)
        THEN "Gmail (G Suite)"
        ELSE IF Contains(mx_domain, <<"outlook">>) \/ Contains(mx_domain, <<"microsoft">>)
        THEN "Microsoft 365"
        ELSE IF Contains(mx_domain, <<"yahoo">>) THEN "Yahoo"
        ELSE IF Contains(mx_domain, <<"zoho">>) THEN "Zoho"
        ELSE IF Contains(mx_domain, <<"protonmail">>) THEN "ProtonMail"
        ELSE "Desconhecido"

GmailInstructions ==
    <<"Para o Gmail, voce precisa ativar a verificacao em duas etapas e usar uma senha de aplicativo.">>

\* the hints written into the shared entry that provider_settings refers to
GmailHints_IntoSharedEntry(result, tbl) ==
    [ret |-> result,
     tables |-> [tbl EXCEPT !.KNOWN_PROVIDERS =
                    [@ EXCEPT !.gmail = @ @@ [needsAppPassword |-> TRUE,
                                              instructions |-> GmailInstructions]]]]

\* the hints for Gmail are written into result['detectedSettings'], a
\* dictionary built for this response; tbl are the tables, left as they are
GmailHints(result, tbl) ==
    [ret |-> [result EXCEPT !.detectedSettings =
                 @ @@ [needsAppPassword |-> TRUE, instructions |-> GmailInstructions]],
     tables |-> tbl]

\* POST /api/verify-email-domain.  own: the answer to the handler's own MX
\* lookup; mx: the answer to the lookup of detect_provider_config.  The
\* imap and smtp of the result are the records of the profile themselves.
\* elapsedTime is present, its value is not modelled.
verify_email_domain(data, own, mx) ==
    IF "email" \notin DOMAIN data
    THEN Run([status |-> 400,
              body |-> [success |-> FALSE, message |-> <<"Parametro email e obrigatorio">>]],
             FALSE, << >>, {}) @@ [tables |-> tables]
    ELSE
    LET email == data.email
        domain == Lower(AfterLastAt(email))
        has_mx == own.k = "ok"
        mx_records == IF has_mx
                      THEN <<[preference |-> own.preference, exchange |-> own.exchange]>>
                      ELSE << >>
        det == detect_provider_config(email, mx)
        provider_name == ProviderName(domain, mx_records)
        result == [success |-> TRUE,
                   domain |-> domain,
                   hasMxRecords |-> has_mx,
                   mxRecords |-> mx_records,
                   detectedSettings |-> [provider |-> provider_name,
                                         imap |-> det.ret.imap,
                                         smtp |-> det.ret.smtp],
                   elapsedTime |-> "measured"]
        final == IF provider_name = "Gmail" THEN GmailHints(result, tables)
                 ELSE [ret |-> result, tables |-> tables]
        o1 == <<Op("verify", "mx", NoTimeout)>>
    IN  Run([status |-> 200, body |-> final.ret], FALSE,
            IF det.mx_queried THEN o1 \o <<Op("dns", "mx", NoTimeout)>> ELSE o1, {})
        @@ [tables |-> final.tables]

(***************************************************************************)
(* imap_diagnostic_endpoint.py                                             *)
(***************************************************************************)

\* re.search(r'([^\s]+) IMAP4[^\s]* server', welcome): the matched group, or
\* << >> when there is no match
ServerType(welcome) ==
    LET hits == {i \in 1..(Len(welcome) - 4) :
                    /\ welcome[i] # " "
                    /\ welcome[i + 1] = " "
                    /\ welcome[i + 2] \in {"IMAP4", "IMAP4rev1"}
                    /\ welcome[i + 3] = " "
                    /\ welcome[i + 4] = "server"}
    IN  IF hits = {} THEN << >> ELSE <<welcome[CHOOSE i \in hits : \A j \in hits : i <= j]>>

ServerInfo(welcome) ==
    IF ServerType(welcome) # << >>
    THEN [welcome_message |-> welcome, server_type |-> ServerType(welcome)]
    ELSE [welcome_message |-> welcome]

\* b'X' in caps; a capability token is a sequence of fragments
HasCap(caps, c) == \E i \in 1..Len(caps) : caps[i] = <<c>>

IsAuthCap(cap) == Len(cap) > 0 /\ cap[1] = "AUTH="

ServerFeatures(caps) ==
    [idle_supported |-> HasCap(caps, "IDLE"),
     condstore_supported |-> HasCap(caps, "CONDSTORE"),
     enable_supported |-> HasCap(caps, "ENABLE"),
     id_supported |-> HasCap(caps, "ID")]

NoDiagnostics == [empty |-> TRUE]

\* the run of teste_imap_especifico whose try block raised; d is
\* sanitizar_erro_imap of the error
DiagnosedFailure(r, d, ops, open) ==
    Run([r EXCEPT !.diagnostics = d, !.message = d.message,
                  !.connection_info = @ \cup {"total_time_ms"}],
        FALSE, ops, open)

\* env: the answers to IMAP4/IMAP4_SSL (open), login, list (reply boxes) and
\* logout, the capability tokens (caps) and the greeting (welcome).
\* connection_info is the set of timings measured, not their values.
teste_imap_especifico(email, password, host, port, secure, test_type, env) ==
    LET P == "diag"
        want_caps == test_type \in {"capabilities", "all"}
        want_login == test_type \in {"login", "all"}
        want_folders == want_login /\ test_type \in {"folders", "all"}
        o1 == <<Op(P, IF secure THEN "open_ssl" ELSE "open", 30)>>
        o2 == IF want_login THEN o1 \o <<Op(P, "login", NoTimeout)>> ELSE o1
        o3 == IF want_folders THEN o2 \o <<Op(P, "list", NoTimeout)>> ELSE o2
        o4 == o3 \o <<Op(P, "logout", NoTimeout)>>
        sess == {"diag_session"}
        t0 == {"response_time_ms", "handshake_time_ms"}
        t1 == IF want_login THEN t0 \cup {"login_time_ms"} ELSE t0
        t2 == IF want_folders THEN t1 \cup {"folders_time_ms"} ELSE t1
        base == [success |-> FALSE, message |-> << >>, test_type |-> test_type,
                 diagnostics |-> NoDiagnostics, server_capabilities |-> << >>,
                 connection_info |-> {"response_time_ms"}]
        withcaps(r) == IF want_caps
                       THEN [r EXCEPT !.server_capabilities = env.caps]
                            @@ ("server_features" :> ServerFeatures(env.caps))
                       ELSE r
        failed(r, e, ops, open) ==
            IF diagnosticar_erro_imap_raises(host, email)
            THEN Run(NoRet, TRUE, ops, open)
            ELSE DiagnosedFailure(r, sanitizar_erro_imap(e, host, email), ops, open)
        r1 == withcaps([base EXCEPT !.connection_info = t0])
        r2 == [r1 EXCEPT !.connection_info = t1, !.success = want_login]
        folders == ParseMailboxes(env.boxes)
        r3 == IF want_folders /\ env.list.k = "OK"
              THEN [r2 EXCEPT !.connection_info = t2]
                   @@ ("folders" :> [count |-> Len(folders), names |-> folders])
              ELSE [r2 EXCEPT !.connection_info = t2]
        r4 == [r3 EXCEPT !.connection_info = @ \cup {"total_time_ms"}]
        r5 == IF env.welcome # << >> THEN r4 @@ ("server_info" :> ServerInfo(env.welcome))
              ELSE r4
        r6 == IF r5.success
              THEN [r5 EXCEPT !.message = <<"Teste de ", test_type, " completado com sucesso">>]
              ELSE r5
    IN  IF env.open.k = "raise"
        THEN failed(base, env.open.err, o1, {})
        ELSE IF want_login /\ env.login.k = "raise"
        THEN failed(r1, env.login.err, o2, sess)
        ELSE IF want_folders /\ env.list.k = "raise"
        THEN failed([r2 EXCEPT !.connection_info = t1], env.list.err, o3, sess)
        ELSE Run(r6, FALSE, o4, IF env.logout.k = "raise" THEN sess ELSE {})

DiagNA ==
    [open |-> NA, login |-> NA, list |-> NA, boxes |-> << >>, logout |-> NA,
     caps |-> << >>, welcome |-> << >>]

ProviderInfo(provider) ==
    CASE provider = "gmail" ->
            [name |-> "Gmail", requires_app_password |-> TRUE, max_connections |-> 15]
      [] provider = "outlook" ->
            [name |-> "Outlook/Microsoft 365", requires_app_password |-> TRUE,
             max_connections |-> 20]
      [] provider = "yahoo" ->
            [name |-> "Yahoo Mail", requires_app_password |-> TRUE]
      [] OTHER -> NoneDict

\* the end of imap_diagnostic, run being the run of teste_imap_especifico:
\* the general information and the provider's are added to its result
DiagnosticResponse(provider, extra, mxop, run) ==
    LET info == IF provider = "generic" THEN extra @@ ("provider" :> provider)
                ELSE extra @@ ("provider" :> provider)
                           @@ ("provider_info" :> ProviderInfo(provider))
    IN  IF run.raised
        THEN Run(InternalError, FALSE, mxop \o run.ops, run.open)
        ELSE Run([status |-> 200, body |-> info @@ run.ret], FALSE,
                 mxop \o run.ops, run.open)

\* POST /api/imap-diagnostic
imap_diagnostic(data, mx, env) ==
    IF ~({"email", "password"} \subseteq DOMAIN data)
    THEN Run([status |-> 400,
              body |-> [success |-> FALSE,
                        message |-> <<"Parametros incompletos. E necessario fornecer email e password.">>]],
             FALSE, << >>, {})
    ELSE
    LET email == data.email
        host0 == Get(data, "imapHost", << >>)
        port0 == Get(data, "imapPort", Num(0))
        secure0 == Get(data, "imapSecure", TRUE)
        test_type == Get(data, "testType", "all")
        no_host == host0 = << >>
        no_port == port0 = Num(0)
        detect == no_host \/ no_port
        det == detect_provider_config(email, mx)
        mxop == IF detect /\ det.mx_queried THEN <<Op("dns", "mx", NoTimeout)>> ELSE << >>
        host == IF no_host THEN det.ret.imap.host ELSE host0
        pt == IF no_port THEN Num(det.ret.imap.port) ELSE port0
        port == pt.v
        provider == identificar_provedor(host, email)
        extra == ("email" :> email)
                 @@ ("server" :> [host |-> host, port |-> port, secure |-> secure0])
    IN  IF ~pt.num
        THEN Run(InternalError, FALSE, mxop, {})
        ELSE DiagnosticResponse(provider, extra, mxop,
                 teste_imap_especifico(email, data.password, host, port, secure0,
                                       test_type, env))

\* POST /api/imap-server-capabilities.  env: the answers to IMAP4/IMAP4_SSL
\* (open) and logout, the capability tokens and the greeting
imap_server_capabilities(data, env) ==
    IF "host" \notin DOMAIN data
    THEN Run([status |-> 400,
              body |-> [success |-> FALSE, message |-> <<"Parametro host e obrigatorio">>]],
             FALSE, << >>, {})
    ELSE
    LET P == "caps"
        host == data.host
        pt == Get(data, "port", Num(993))
        port == pt.v
        secure == Get(data, "secure", TRUE)
        caps == env.caps
        o1 == <<Op(P, IF secure THEN "open_ssl" ELSE "open", 10)>>
        o2 == o1 \o <<Op(P, "logout", NoTimeout)>>
        base == [success |-> FALSE, host |-> host, port |-> port, secure |-> secure,
                 capabilities |-> << >>, server_info |-> NoDiagnostics]
        auth == SelectSeq(caps, IsAuthCap)
        features == ServerFeatures(caps)
                    @@ ("sasl_supported" :> (Len(auth) > 0))
                    @@ ("sasl_methods" :> [i \in 1..Len(auth) |-> Tail(auth[i])])
        r1 == [base EXCEPT !.capabilities = caps,
                           !.server_info = IF env.welcome # << >>
                                           THEN ServerInfo(env.welcome) ELSE NoDiagnostics]
              @@ ("features" :> features)
        err(r, e) == r @@ ("error" :> e.text) @@ ("error_type" :> classificar_erro_imap(e))
    IN  IF ~pt.num
        THEN Run([status |-> 500,
                  body |-> [success |-> FALSE, message |-> <<"Erro interno do servidor: ">>]],
                 FALSE, << >>, {})
        ELSE IF env.open.k = "raise"
        THEN Run([status |-> 200, body |-> err(base, env.open.err)], FALSE, o1, {})
        ELSE IF env.logout.k = "raise"
        THEN Run([status |-> 200, body |-> err(r1, env.logout.err)], FALSE, o2,
                 {"caps_session"})
        ELSE Run([status |-> 200, body |-> [r1 EXCEPT !.success = TRUE]], FALSE, o2, {})

(***************************************************************************)
(* Inputs and environments                                                 *)
(***************************************************************************)

\* the longest LIST reply of an environment
MaxBoxes == 2

BoxKinds ==
    { [isbytes |-> TRUE, utf8 |-> TRUE,
       parts |-> <<[quoted |-> FALSE, name |-> "(HasNoChildren)"],
                   [quoted |-> TRUE, name |-> "INBOX"]>>],
      [isbytes |-> TRUE, utf8 |-> FALSE,
       parts |-> <<[quoted |-> FALSE, name |-> "?"]>>],
      [isbytes |-> TRUE, utf8 |-> TRUE,
       parts |-> <<[quoted |-> FALSE, name |-> "(Noselect) / Sent"]>>] }

BoxLists == UNION {[1..n -> BoxKinds] : n \in 0..MaxBoxes}

OneBox ==
    << [isbytes |-> TRUE, utf8 |-> TRUE,
        parts |-> <<[quoted |-> FALSE, name |-> "(HasNoChildren)"],
                    [quoted |-> TRUE, name |-> "INBOX"]>>] >>

T_credentials == <<"Invalid", " ", "credentials">>
T_login == <<"LOGIN", " ", "failed">>
T_illegal == <<"command", " ", "illegal">>
T_cert == <<"certificate", " ", "verify", " ", "failed">>
T_timedout == <<"timed", " ", "out">>
T_refused == <<"Connection", " ", "refused">>
T_eof == <<"socket", " ", "error", ":", " ", "EOF">>
T_other == <<"unexpected">>
T_closed == <<"Connection", " ", "unexpectedly", " ", "closed">>

DnsOk == OK
DnsFail == {Ans("empty", 0, NoErr), Raise("NXDOMAIN", <<"The DNS query name does not exist">>)}

TcpOk == OK
TcpFail == {Ans("ok", 111, NoErr), Ans("ok", 110, NoErr), Ans("ok", 113, NoErr),
            Raise("gaierror", <<"[Errno -2] Name or service not known">>)}

ImapOpenFail == {Raise("SSLError", T_cert), Raise("timeout", T_timedout),
                 Raise("ConnectionRefusedError", T_refused), Raise("IMAP4.abort", T_eof)}

ImapLoginFail == {Raise("IMAP4.error", T_credentials), Raise("IMAP4.error", T_login),
                  Raise("IMAP4.abort", T_eof), Raise("ValueError", T_other)}

ImapCmdFail == {Raise("IMAP4.error", T_illegal)}

LogoutFail == {Raise("IMAP4.abort", T_eof)}

Status(w) == Ans(w, 0, NoErr)

ImapEnvs ==
    LET E(d, t, o, l, li, b, s, lo) ==
            [dns |-> d, tcp |-> t, open |-> o, login |-> l, list |-> li,
             boxes |-> b, select |-> s, logout |-> lo]
        lists == {<<Status("OK"), OneBox>>, <<Status("NO"), << >> >>}
    IN  {E(d, NA, NA, NA, NA, << >>, NA, NA) : d \in DnsFail \cup {DnsOk}}
        \cup {E(DnsOk, TcpOk, OK, OK, Status("OK"), b, Status("OK"), OK) : b \in BoxLists}
        \cup {E(DnsOk, t, NA, NA, NA, << >>, NA, NA) : t \in TcpFail}
        \cup {E(DnsOk, TcpOk, o, NA, NA, << >>, NA, NA) : o \in ImapOpenFail}
        \cup {E(DnsOk, TcpOk, OK, l, NA, << >>, NA, NA) : l \in ImapLoginFail}
        \cup {E(DnsOk, TcpOk, OK, OK, li, << >>, NA, NA) : li \in ImapCmdFail}
        \cup {E(DnsOk, TcpOk, OK, OK, li[1], li[2], s, NA) : li \in lists, s \in ImapCmdFail}
        \cup {E(DnsOk, TcpOk, OK, OK, li[1], li[2], s, lo) :
                 li \in lists, s \in {Status("OK"), Status("NO")}, lo \in {OK} \cup LogoutFail}

SmtpOpenFail == {Raise("SSLError", T_cert), Raise("timeout", T_timedout),
                 Raise("SMTPServerDisconnected", T_closed)}

SmtpStarttlsFail == {Raise("SMTPException", <<"START", "TLS", " extension not supported by server.">>),
                     Raise("SSLError", T_cert)}

SmtpLoginFail == {Ans("raise", 535, Err("SMTPAuthenticationError", <<"(535, b'Username and Password not accepted')">>)),
                  Raise("SMTPException", <<"No suitable authentication method found.">>)}

SmtpCmdFail == {Raise("SMTPServerDisconnected", T_closed)}

SmtpEnvs ==
    LET E(d, t, o, e, st, e2, l, q) ==
            [dns |-> d, tcp |-> t, open |-> o, ehlo |-> e, starttls |-> st,
             ehlo2 |-> e2, login |-> l, quit |-> q]
    IN  {E(d, NA, NA, NA, NA, NA, NA, NA) : d \in DnsFail \cup {DnsOk}}
        \cup {E(DnsOk, t, NA, NA, NA, NA, NA, NA) : t \in TcpFail}
        \cup {E(DnsOk, TcpOk, o, NA, NA, NA, NA, NA) : o \in SmtpOpenFail}
        \cup {E(DnsOk, TcpOk, OK, e, NA, NA, NA, NA) : e \in SmtpCmdFail}
        \cup {E(DnsOk, TcpOk, OK, OK, st, NA, NA, NA) : st \in SmtpStarttlsFail}
        \cup {E(DnsOk, TcpOk, OK, OK, OK, e2, NA, NA) : e2 \in SmtpCmdFail}
        \cup {E(DnsOk, TcpOk, OK, OK, st, st, l, NA) : st \in {OK, NA}, l \in SmtpLoginFail}
        \cup {E(DnsOk, TcpOk, OK, OK, st, st, OK, q) :
                 st \in {OK, NA}, q \in {OK} \cup SmtpCmdFail}

Caps == <<(<<"IMAP4rev1">>), (<<"IDLE">>), (<<"AUTH=", "PLAIN">>)>>

Welcome == <<"*", " ", "OK", " ", "Dovecot", " ", "IMAP4rev1", " ", "server", " ", "ready">>

DiagEnvs ==
    LET E(o, l, li, b, lo) ==
            [open |-> o, login |-> l, list |-> li, boxes |-> b, logout |-> lo,
             caps |-> IF o.k = "ok" THEN Caps ELSE << >>,
             welcome |-> IF o.k = "ok" THEN Welcome ELSE << >>]
        lists == {<<Status("OK"), OneBox>>, <<Status("NO"), << >> >>}
    IN  {E(o, NA, NA, << >>, NA) : o \in ImapOpenFail}
        \cup {E(OK, OK, Status("OK"), b, OK) : b \in BoxLists}
        \cup {E(OK, l, NA, << >>, NA) : l \in ImapLoginFail}
        \cup {E(OK, OK, li, << >>, NA) : li \in ImapCmdFail}
        \cup {E(OK, l, NA, << >>, lo) : l \in {OK, NA}, lo \in {OK} \cup LogoutFail}
        \cup {E(OK, OK, li[1], li[2], lo) : li \in lists, lo \in {OK} \cup LogoutFail}

MxNA == [k |-> "na", exchange |-> << >>]

MxAns == { [k |-> "raise", exchange |-> << >>],
           [k |-> "ok", exchange |-> <<"aspmx", ".", "l", ".", "google", ".", "com", ".">>],
           [k |-> "ok", exchange |-> <<"mx", ".", "b", ".", "com", ".">>] }

\* the answers to an MX lookup of verify_email_domain
VerifyMx ==
    { [k |-> "raise", preference |-> 0, exchange |-> << >>],
      [k |-> "ok", preference |-> 1,
       exchange |-> <<"aspmx", ".", "l", ".", "google", ".", "com", ".">>],
      [k |-> "ok", preference |-> 1,
       exchange |-> <<"ASPMX", ".", "L", ".", "GOOGLE", ".", "COM", ".">>],
      [k |-> "ok", preference |-> 10, exchange |-> <<"mx", ".", "b", ".", "com", ".">>],
      [k |-> "ok", preference |-> 0,
       exchange |-> <<"b-com", ".", "mail", ".", "protection", ".", "outlook", ".", "com", ".">>],
      [k |-> "ok", preference |-> 1,
       exchange |-> <<"mta5", ".", "am0", ".", "yahoo", "dns", ".", "net", ".">>],
      [k |-> "ok", preference |-> 10, exchange |-> <<"mx", ".", "zoho", ".", "com", ".">>] }

DomainRequests ==
    {[email |-> e] : e \in { <<"a", "@", "b", ".", "com">>,
                             <<"u", "@", "gmail", ".", "com">>,
                             <<"U", "@", "hotmail", ".", "com">>,
                             <<"u", "@", "yahoo", ".", "com">> }}
    \cup {[password |-> <<"pw">>]}

Emails == { <<"a", "@", "b", ".", "com">>, <<"u", "@", "gmail", ".", "com">> }

H_mail == <<"mail", ".", "b", ".", "com">>

AllFour ==
    [imapHost |-> H_mail, imapPort |-> Num(143), smtpHost |-> H_mail, smtpPort |-> Num(465)]

\* the optional fields of a test-connection request
CoreExtras ==
    { [autodetect |-> TRUE],
      AllFour @@ [autodetect |-> FALSE] }

OtherExtras ==
    { [autodetect |-> FALSE],
      AllFour @@ [smtpStartTLS |-> TRUE],
      AllFour @@ [smtpSecure |-> TRUE, smtpStartTLS |-> TRUE, autodetect |-> FALSE],
      [imapHost |-> H_mail, imapSecure |-> FALSE, smtpPort |-> Num(25), smtpStartTLS |-> FALSE],
      [timeout |-> Num(5)],
      [timeout |-> Num(-1)],
      [timeout |-> NotNum],
      AllFour @@ [imapPort |-> NotNum, autodetect |-> FALSE] }

TestFlags == {[testImap |-> a, testSmtp |-> b] : a \in BOOLEAN, b \in BOOLEAN}

Requests ==
    {[email |-> e, password |-> <<"pw">>] @@ t @@ x :
        e \in Emails, t \in TestFlags, x \in CoreExtras}
    \cup {[email |-> <<"a", "@", "b", ".", "com">>, password |-> <<"pw">>] @@ x :
             x \in OtherExtras}
    \cup {[email |-> e] : e \in Emails}

ServerRequests ==
    { [host |-> H_mail], [host |-> H_mail, port |-> Num(993)],
      [host |-> H_mail, port |-> Num(143), secure |-> FALSE],
      [host |-> H_mail, port |-> NotNum], [port |-> Num(993)] }

DiagRequests ==
    {[email |-> e, password |-> <<"pw">>, testType |-> t] @@ x :
        e \in Emails, t \in {"login", "capabilities", "folders", "all"},
        x \in {[imapSecure |-> TRUE], [imapHost |-> H_mail, imapPort |-> Num(143), imapSecure |-> FALSE]}}
    \cup {[email |-> e, password |-> <<"pw">>] : e \in Emails}
    \cup {[email |-> e, password |-> <<"pw">>, imapPort |-> NotNum] : e \in Emails}
    \cup {[email |-> e] : e \in Emails}

(***************************************************************************)
(* The service: one request is handled at a time; its response is pending  *)
(* until delivered.                                                        *)
(***************************************************************************)

VARIABLES
    handler,    \* the endpoint whose response is pending, or "idle"
    request,    \* the JSON body of that request
    env,        \* the answers the external collaborators gave during the run
    response,   \* the returned [status, body]
    ops,        \* the external calls of the run, in order
    open,       \* the sockets and sessions the run left open
    earlier     \* what the pending call returned when first made, once it is
                \* made again with the same arguments

vars == <<handler, request, env, response, ops, open, earlier, tables>>

NoEnv ==
    [mx |-> MxNA, own_mx |-> MxNA, imap |-> ImapNA, smtp |-> SmtpNA, diag |-> DiagNA,
     dns |-> NA, tcp |-> NA]

NoRequest == [none |-> TRUE]

NoResponse == [status |-> 0]

\* the fields of a driver environment that were answered
Answered(e, fields) == {f \in fields : e[f].k # "na"}

FieldOf(op) == IF op \in {"open", "open_ssl"} THEN "open" ELSE op

\* the calls the run made for protocol p
Called(o, p) ==
    {FieldOf(o[i].op) : i \in {j \in 1..Len(o) : o[j].p = p}}
    \cup (IF \E i, j \in 1..Len(o) : i < j /\ o[i].p = p /\ o[j].p = p
                                     /\ o[i].op = "ehlo" /\ o[j].op = "ehlo"
          THEN {"ehlo2"} ELSE {})

ImapFields == {"dns", "tcp", "open", "login", "list", "select", "logout"}

SmtpFields == {"dns", "tcp", "open", "ehlo", "starttls", "ehlo2", "login", "quit"}

DiagFields == {"open", "login", "list", "logout"}

Init ==
    /\ handler = "idle"
    /\ request = NoRequest
    /\ env = NoEnv
    /\ response = NoResponse
    /\ ops = << >>
    /\ open = {}
    /\ earlier = NoResponse
    /\ tables = Tables

\* the environment e answers exactly the calls the run made
Canonical(e, o) ==
    /\ (e.mx.k # "na") = (Called(o, "dns") # {})
    /\ (e.own_mx.k # "na") = (Called(o, "verify") # {})
    /\ Answered(e.imap, ImapFields) = Called(o, "imap")
    /\ Answered(e.smtp, SmtpFields) = Called(o, "smtp")
    /\ Answered(e.diag, DiagFields) = Called(o, "diag") \cup Called(o, "caps")
    /\ Answered(e, {"dns", "tcp"}) = Called(o, "check")

Respond(name, data, e, run) ==
    /\ Canonical(e, run.ops)
    /\ handler' = name
    /\ request' = data
    /\ env' = e
    /\ response' = run.ret
    /\ ops' = run.ops
    /\ open' = run.open
    /\ earlier' = NoResponse
    /\ tables' = IF "tables" \in DOMAIN run THEN run.tables ELSE tables

TestConnection ==
    /\ handler = "idle"
    /\ \E data \in Requests, mx \in MxAns \cup {MxNA},
          ienv \in ImapEnvs \cup {ImapNA}, senv \in SmtpEnvs \cup {SmtpNA} :
          Respond("test_connection", data,
                  [NoEnv EXCEPT !.mx = mx, !.imap = ienv, !.smtp = senv],
                  test_connection(data, mx, ienv, senv))

CheckServer ==
    /\ handler = "idle"
    /\ \E data \in ServerRequests, dns \in DnsFail \cup {DnsOk, NA},
          tcp \in TcpFail \cup {TcpOk, NA} :
          Respond("check_server", data, [NoEnv EXCEPT !.dns = dns, !.tcp = tcp],
                  check_server(data, dns, tcp))

ImapDiagnostic ==
    /\ handler = "idle"
    /\ \E data \in DiagRequests, mx \in MxAns \cup {MxNA}, denv \in DiagEnvs \cup {DiagNA} :
          Respond("imap_diagnostic", data, [NoEnv EXCEPT !.mx = mx, !.diag = denv],
                  imap_diagnostic(data, mx, denv))

ImapServerCapabilities ==
    /\ handler = "idle"
    /\ \E data \in ServerRequests, denv \in DiagEnvs \cup {DiagNA} :
          Respond("imap_server_capabilities", data, [NoEnv EXCEPT !.diag = denv],
                  imap_server_capabilities(data, denv))

VerifyEmailDomain ==
    /\ handler = "idle"
    /\ \E data \in DomainRequests, own \in VerifyMx \cup {MxNA}, mx \in VerifyMx \cup {MxNA} :
          Respond("verify_email_domain", data, [NoEnv EXCEPT !.own_mx = own, !.mx = mx],
                  verify_email_domain(data, own, mx))

\* the pending response is sent; the next request starts afresh.  The
\* tables outlive the request.
Deliver ==
    /\ handler # "idle"
    /\ handler' = "idle"
    /\ request' = NoRequest
    /\ env' = NoEnv
    /\ response' = NoResponse
    /\ ops' = << >>
    /\ open' = {}
    /\ earlier' = NoResponse
    /\ tables' = tables

Next ==
    \/ TestConnection
    \/ CheckServer
    \/ ImapDiagnostic
    \/ ImapServerCapabilities
    \/ VerifyEmailDomain
    \/ Deliver

Spec == Init /\ [][Next]_vars

(***************************************************************************)
(* The diagnosis and detection functions applied on their own: one call is *)
(* made at a time; request holds its arguments and response what it        *)
(* returned, until delivered.                                              *)
(***************************************************************************)

\* the longest error text, in phrases
MaxPhrases == 2

Phrases ==
    { <<"AUTHENTICATE", " ", "failed">>,
      <<"LOGIN", " ", "failed">>,
      <<"Invalid", " ", "credentials">>,
      <<"Application-specific", " ", "password", " ", "required">>,
      <<"certificate", " ", "verify", " ", "failed">>,
      <<"SSL">>,
      <<"timeout">>,
      <<"socket", " ", "error">>,
      <<"Connection", " ", "refused">>,
      <<"Too", " ", "many", " ", "simultaneous", " ", "connection", "s">>,
      <<"access", " ", "denied">>,
      <<"Web", " ", "login", " ", "required">>,
      <<"dns", " ", "failure">>,
      <<"unexpected">> }

RECURSIVE Join(_)
Join(ps) ==
    IF ps = << >> THEN << >>
    ELSE IF Len(ps) = 1 THEN ps[1]
    ELSE ps[1] \o <<"; ">> \o Join(Tail(ps))

\* str(erro): up to MaxPhrases phrases
Texts == {Join(ps) : ps \in UNION {[1..n -> Phrases] : n \in 0..MaxPhrases}}

ErrorClasses ==
    {"IMAP4.error", "IMAP4.abort", "SSLError", "timeout", "OSError",
     "ConnectionRefusedError", "ValueError"}

Errors == {Err(c, t) : c \in ErrorClasses, t \in Texts}

DiagnosedErrors == {Err(c, t) : c \in {"IMAP4.error", "OSError"}, t \in Texts}

\* the host and email handed to the diagnosis, None when not given
Contexts ==
    { [host |-> <<"imap", ".", "gmail", ".", "com">>, email |-> <<"u", "@", "gmail", ".", "com">>],
      [host |-> <<"outlook", ".", "office365", ".", "com">>, email |-> <<"a", "@", "b", ".", "com">>],
      [host |-> <<"imap", ".", "mail", ".", "yahoo", ".", "com">>, email |-> <<"a", "@", "b", ".", "com">>],
      [host |-> H_mail, email |-> <<"a", "@", "b", ".", "com">>],
      [host |-> H_mail, email |-> <<"u", "@", "gmail", ".", "com">>],
      [host |-> None, email |-> None],
      [host |-> None, email |-> <<"a", "@", "b", ".", "com">>] }

DetectEmails ==
    { <<"a", "@", "b", ".", "com">>,
      <<"u", "@", "gmail", ".", "com">>,
      <<"U", "@", "hotmail", ".", "com">>,
      <<"u", "@", "live", ".", "yahoo", ".", "com">>,
      <<"u", "@", "yahoo", ".", "gmail", ".", "com">>,
      <<"gmail", "@", "b", ".", "com">>,
      <<"u", "@", "yahoo", ".", "com">>,
      <<"u", "@", "x", "@", "outlook", ".", "com">>,
      <<"b", ".", "com">>,
      << >> }

DetectMx ==
    { MxNA,
      [k |-> "raise", exchange |-> << >>],
      [k |-> "empty", exchange |-> << >>],
      [k |-> "ok", exchange |-> <<"aspmx", ".", "l", ".", "google", ".", "com", ".">>],
      [k |-> "ok", exchange |-> <<"mx", ".", "b", ".", "com", ".">>],
      [k |-> "ok", exchange |-> <<"b-com", ".", "mail", ".", "protection", ".", "outlook", ".", "com", ".">>],
      [k |-> "ok", exchange |-> <<"mta5", ".", "am0", ".", "yahoo", "dns", ".", "net", ".">>],
      [k |-> "ok", exchange |-> <<"mx", ".", "microsoft", ".", "yahoo", ".", "google", ".", "com", ".">>],
      [k |-> "ok", exchange |-> <<"mx", ".", "yahoo", ".", "outlook", ".", "com", ".">>] }

\* a call of function name with arguments input returned output; e holds
\* the answers of the resolver
Apply(name, input, e, output) ==
    /\ handler' = name
    /\ request' = input
    /\ env' = e
    /\ response' = output
    /\ ops' = << >>
    /\ open' = {}
    /\ earlier' = NoResponse

Classify ==
    /\ handler = "idle"
    /\ \E erro \in Errors :
          Apply("classificar_erro_imap", [erro |-> erro], NoEnv,
                [kind |-> classificar_erro_imap(erro)])
    /\ tables' = tables

\* what a function of (erro, host, email) returns, or that it raised
Outcome(raises, ret) == IF raises THEN [raised |-> TRUE] ELSE [raised |-> FALSE, ret |-> ret]

Diagnose ==
    /\ handler = "idle"
    /\ \E erro \in DiagnosedErrors, c \in Contexts :
          Apply("diagnosticar_erro_imap", [erro |-> erro, host |-> c.host, email |-> c.email],
                NoEnv,
                Outcome(diagnosticar_erro_imap_raises(c.host, c.email),
                        diagnosticar_erro_imap(erro, c.host, c.email)))
    /\ tables' = tables

Sanitize ==
    /\ handler = "idle"
    /\ \E erro \in DiagnosedErrors, c \in Contexts :
          Apply("sanitizar_erro_imap", [erro |-> erro, host |-> c.host, email |-> c.email],
                NoEnv,
                Outcome(diagnosticar_erro_imap_raises(c.host, c.email),
                        sanitizar_erro_imap(erro, c.host, c.email)))
    /\ tables' = tables

\* the call marks the entry of KNOWN_PROVIDERS it hands out
Detected_MarksEntry(email, mx, det) ==
    /\ (mx.k # "na") = det.mx_queried
    /\ Apply("detect_provider_config", [email |-> email], [NoEnv EXCEPT !.mx = mx], det)
    /\ tables' = [tables EXCEPT !.KNOWN_PROVIDERS =
                     [p \in DOMAIN @ |->
                         IF @[p] = det.ret /\ "detected" \notin DOMAIN @[p]
                         THEN @[p] @@ [detected |-> "known"] ELSE @[p]]]

\* the MX lookup is answered exactly when it is made; the entry of
\* KNOWN_PROVIDERS is returned as it is
Detected(email, mx, det) ==
    /\ (mx.k # "na") = det.mx_queried
    /\ Apply("detect_provider_config", [email |-> email], [NoEnv EXCEPT !.mx = mx], det)
    /\ tables' = tables

DetectProvider ==
    /\ handler = "idle"
    /\ \E email \in DetectEmails, mx \in DetectMx :
          Detected(email, mx, detect_provider_config(email, mx))

\* what the call of function name with arguments input returns now, e
\* holding the answers of the resolver
Call(name, input, e) ==
    CASE name = "classificar_erro_imap" -> [kind |-> classificar_erro_imap(input.erro)]
      [] name = "diagnosticar_erro_imap" ->
            Outcome(diagnosticar_erro_imap_raises(input.host, input.email),
                    diagnosticar_erro_imap(input.erro, input.host, input.email))
      [] name = "sanitizar_erro_imap" ->
            Outcome(diagnosticar_erro_imap_raises(input.host, input.email),
                    sanitizar_erro_imap(input.erro, input.host, input.email))
      [] name = "detect_provider_config" -> detect_provider_config(input.email, e.mx)

\* the pending call is made once more with the same arguments and the same
\* answers of the resolver; what it returned before is kept in earlier
Repeat ==
    /\ handler \in {"classificar_erro_imap", "diagnosticar_erro_imap",
                    "sanitizar_erro_imap", "detect_provider_config"}
    /\ earlier = NoResponse
    /\ earlier' = response
    /\ response' = Call(handler, request, env)
    /\ UNCHANGED <<handler, request, env, ops, open, tables>>

FnNext ==
    \/ Classify
    \/ Diagnose
    \/ Sanitize
    \/ DetectProvider
    \/ Repeat
    \/ Deliver

FnSpec == Init /\ [][FnNext]_vars

(***************************************************************************)
(* Properties                                                              *)
(***************************************************************************)

\* the pending response is a test_connection response that ran the drivers
Verified == handler = "test_connection" /\ response.status = 200

\* the result of driver p ("imap" or "smtp") in the pending response
DriverResult(p) == response.body.details[p]

DriverRan(p) == Verified /\ ~IsNone(DriverResult(p))

\* the positions of the log at which a call of protocol p for field f was made
Pos(p, f) == {i \in 1..Len(ops) : ops[i].p = p /\ FieldOf(ops[i].op) = f}

Closing == {"logout", "quit"}

\* C1: whenever a handler opened a protocol session (IMAP in test_connection
\* and imap_diagnostic, SMTP in test_connection), a logout or quit of that
\* session is among the calls made before it returned.
C1_SessionCloseAttempted ==
    \A p \in {"imap", "smtp", "diag"} :
        (handler \in {"test_connection", "imap_diagnostic"} /\ env[p].open.k = "ok")
            => \E c \in Closing : Pos(p, c) # {}

\* C2: no run of test_network_connection (inside a driver or in check_server)
\* returns with the socket it created still open.
C2_SocketClosed ==
    open \cap {"imap_socket", "smtp_socket", "check_socket"} = {}

\* C3: when the cleanup call (IMAP logout, SMTP quit, logout of the
\* capabilities endpoint) raises, the result still has success = TRUE.
C3_CleanupNeverChangesOutcome ==
    /\ (handler = "test_connection" /\ env.imap.logout.k = "raise")
          => (Verified /\ DriverResult("imap").success)
    /\ (handler = "test_connection" /\ env.smtp.quit.k = "raise")
          => (Verified /\ DriverResult("smtp").success)
    /\ (handler = "imap_server_capabilities" /\ env.diag.logout.k = "raise")
          => response.body.success

\* the rank of a driver call in the order DNS, TCP, session open, login
Rank(f) ==
    CASE f = "dns" -> 1
      [] f = "tcp" -> 2
      [] f = "open" -> 3
      [] f \in {"ehlo", "starttls"} -> 4
      [] f = "login" -> 5
      [] OTHER -> 6

DnsFailed(p) == env[p].dns.k \in {"empty", "raise"}

\* the TCP check failed: settimeout or connect_ex raised, or connect_ex
\* returned a non-zero code
TcpFailed(p) ==
    /\ env[p].dns.k = "ok"
    /\ \/ env[p].tcp.k \in {"na", "raise"}
       \/ env[p].tcp.code # 0

\* C4: in both drivers the calls are made in the order DNS, TCP, session
\* open, login, each at most once; a failed DNS check gives stage "dns" and
\* no other call; a failed TCP check gives stage "network" and neither a
\* session nor a login.
C4_StagesInOrder ==
    \A p \in {"imap", "smtp"} :
        DriverRan(p) =>
            /\ \A i, j \in 1..Len(ops) :
                  (i < j /\ ops[i].p = p /\ ops[j].p = p)
                      => Rank(FieldOf(ops[i].op)) <= Rank(FieldOf(ops[j].op))
            /\ \A f \in {"dns", "tcp", "open", "login"} : Cardinality(Pos(p, f)) <= 1
            /\ Pos(p, "dns") # {}
            /\ DnsFailed(p) => (DriverResult(p).stage = "dns" /\ Called(ops, p) = {"dns"})
            /\ DriverResult(p).stage = "dns" => DnsFailed(p)
            /\ TcpFailed(p) => /\ DriverResult(p).stage = "network"
                               /\ Called(ops, p) \subseteq {"dns", "tcp"}
            /\ DriverResult(p).stage = "network" => TcpFailed(p)

C4_Witness ==
    /\ DriverRan("imap") /\ DriverRan("smtp")
    /\ TcpFailed("imap") /\ DriverResult("imap").stage = "network"
    /\ DnsFailed("smtp") /\ DriverResult("smtp").stage = "dns"

\* the success flags of the drivers that ran
RanFlags == {DriverResult(p).success : p \in {q \in {"imap", "smtp"} : DriverRan(q)}}

\* C5 as stated: the overall success is the conjunction of the success flags
\* of the drivers that ran, also when neither ran.
C5_SuccessIsConjunction ==
    Verified => (response.body.success = (\A b \in RanFlags : b))

\* C5 amended: when at least one driver ran the overall success is the
\* conjunction of their success flags; when neither ran, and in every
\* response that is not a 200, it is FALSE.
C5_SuccessIsConjunctionOfSome ==
    handler = "test_connection" =>
        IF Verified /\ RanFlags # {}
        THEN response.body.success = (\A b \in RanFlags : b)
        ELSE response.body.success = FALSE

C5_Witness ==
    /\ DriverRan("imap") /\ DriverRan("smtp")
    /\ DriverResult("imap").success /\ ~DriverResult("smtp").success
    /\ ~response.body.success

M_BothOk == <<"Servidores IMAP e SMTP acessiveis e autenticacao bem-sucedida">>
M_BothFailed == <<"Falha no acesso aos servidores IMAP e SMTP">>
M_ImapFailed == <<"Falha no acesso ao servidor IMAP, SMTP acessivel">>
M_SmtpFailed == <<"Falha no acesso ao servidor SMTP, IMAP acessivel">>
M_None == <<"Nenhum teste solicitado">>

\* C6: the overall message is fixed by the drivers requested and their
\* success flags: the four fixed phrasings when both are requested, the
\* driver's own message when one is, "Nenhum teste solicitado" when none is.
C6_MessageByOutcome ==
    Verified =>
        LET ti == Get(request, "testImap", TRUE)
            ts == Get(request, "testSmtp", TRUE)
            msg == response.body.message
        IN  /\ (ti /\ ts) =>
                  LET i == DriverResult("imap").success
                      m == DriverResult("smtp").success
                  IN  /\ (i /\ m) => msg = M_BothOk
                      /\ (~i /\ ~m) => msg = M_BothFailed
                      /\ (~i /\ m) => msg = M_ImapFailed
                      /\ (i /\ ~m) => msg = M_SmtpFailed
            /\ (ti /\ ~ts) => msg = DriverResult("imap").message
            /\ (~ti /\ ts) => msg = DriverResult("smtp").message
            /\ (~ti /\ ~ts) => msg = M_None

C6_Witness ==
    /\ DriverRan("imap") /\ DriverRan("smtp")
    /\ DriverResult("imap").success /\ ~DriverResult("smtp").success
    /\ response.body.message = M_SmtpFailed

\* C7: when both drivers are requested and the IMAP driver was started, the
\* SMTP driver runs too, whatever the IMAP outcome, and every SMTP call
\* comes after every IMAP call.
C7_SmtpAfterImap ==
    (/\ handler = "test_connection"
     /\ Called(ops, "imap") # {}
     /\ Get(request, "testSmtp", TRUE))
        => /\ Called(ops, "smtp") # {}
           /\ DriverRan("imap") /\ DriverRan("smtp")
           /\ \A i, j \in 1..Len(ops) :
                 (ops[i].p = "imap" /\ ops[j].p = "smtp") => i < j

C7_Witness ==
    /\ DriverRan("imap") /\ DriverRan("smtp")
    /\ DnsFailed("imap")
    /\ Pos("smtp", "login") # {}

Refused(p) == env[p].dns.k = "ok" /\ env[p].tcp.k = "ok" /\ env[p].tcp.code = 111

\* C8: a request for the IMAP test only, whose host resolves and refuses the
\* TCP connection, gets success FALSE, IMAP stage "network", an overall
\* message that contains host:port of the IMAP endpoint, and no SMTP call.
C8_RefusedImapOnly ==
    (/\ handler = "test_connection"
     /\ "testImap" \in DOMAIN request /\ request.testImap
     /\ "testSmtp" \in DOMAIN request /\ ~request.testSmtp
     /\ Refused("imap"))
        => /\ Verified
           /\ ~response.body.success
           /\ DriverResult("imap").stage = "network"
           /\ LET ep == response.body.details.detected_settings.imap
              IN  Contains(response.body.message, HostPort(ep.host, ep.port))
           /\ Called(ops, "smtp") = {}
           /\ IsNone(DriverResult("smtp"))

C8_Witness ==
    /\ handler = "test_connection"
    /\ "testSmtp" \in DOMAIN request /\ ~request.testSmtp
    /\ Refused("imap")
    /\ DriverResult("imap").stage = "network"

\* a call of driver p raised, cleanup included
RaisedIn(p, fields) == \E f \in fields : env[p][f].k = "raise"

FailedIn(p, fields) == DnsFailed(p) \/ TcpFailed(p) \/ RaisedIn(p, fields)

IsInternalError ==
    /\ response.status = 500
    /\ ~response.body.success
    /\ Contains(response.body.message, <<"Erro interno do servidor: ">>)

Stages == {"dns", "network", "authentication", "protocol", "ssl", "connection", "authenticated"}

\* C10 as stated: every driver result has success, message and a stage;
\* every failed one has an error_type; every failed IMAP one has solutions
\* and diagnostic_info.
C10_FailuresCarryErrorType ==
    \A p \in {"imap", "smtp"} :
        DriverRan(p) =>
            LET r == DriverResult(p)
            IN  /\ {"success", "message", "stage"} \subseteq DOMAIN r
                /\ r.stage \in Stages
                /\ ~r.success => "error_type" \in DOMAIN r
                /\ (~r.success /\ p = "imap")
                      => {"solutions", "diagnostic_info"} \subseteq DOMAIN r

\* C10 amended: every driver result has success, message and a stage; a
\* failed result of stage dns or network has the failed check as details
\* and neither error_type nor diagnostic; a failed result of any other stage
\* has an error_type, and for IMAP also solutions and diagnostic_info.
C10_HandshakeFailuresCarryErrorType ==
    \A p \in {"imap", "smtp"} :
        DriverRan(p) =>
            LET r == DriverResult(p)
            IN  /\ {"success", "message", "stage"} \subseteq DOMAIN r
                /\ r.stage \in Stages
                /\ r.success = (r.stage = "authenticated")
                /\ (~r.success /\ r.stage \in {"dns", "network"})
                      => /\ "details" \in DOMAIN r
                         /\ DOMAIN r \cap {"error_type", "solutions", "diagnostic_info"} = {}
                /\ (~r.success /\ r.stage \notin {"dns", "network"})
                      => /\ "error_type" \in DOMAIN r
                         /\ p = "imap" => {"solutions", "diagnostic_info"} \subseteq DOMAIN r

C10_Witness ==
    /\ DriverRan("imap") /\ DriverRan("smtp")
    /\ DriverResult("imap").stage = "connection"
    /\ env.imap.login.k = "raise" /\ env.imap.login.err.cls = "ValueError"
    /\ "diagnostic_info" \in DOMAIN DriverResult("imap")
    /\ DriverResult("smtp").stage = "dns"

(***************************************************************************)
(* Properties of the classifier, the diagnosis and the provider detection  *)
(***************************************************************************)

Classified == handler = "classificar_erro_imap"

\* pattern i of ERROR_PATTERNS is found in the text of the classified error
Matches(i) == Search(ERROR_PATTERNS[i].alts, request.erro.text)

NoPatternMatches == \A i \in 1..Len(ERROR_PATTERNS) : ~Matches(i)

Kinds ==
    {ERROR_PATTERNS[i].kind : i \in 1..Len(ERROR_PATTERNS)}
    \cup {"imap_protocol", "ssl_error", "timeout", "socket_error", "connection_refused",
          "unknown"}

\* C11: an error whose text contains 'application-specific password', in any
\* case, is classified app_password.
C11_AppPasswordKind ==
    (Classified /\ Contains(Lower(request.erro.text),
                            <<"application-specific", " ", "password">>))
        => response.kind = "app_password"

\* the error is of one of the runtime categories the classifier tests
InCategory ==
    \E b \in {"IMAP4.error", "SSLError", "timeout", "OSError", "ConnectionRefusedError"} :
        IsInstance(request.erro.cls, b)

\* C12 as stated: the classifier returns one kind for every error, and
\* 'unknown' whenever no pattern matches the text.
C12_UnmatchedIsUnknown ==
    Classified =>
        /\ response.kind \in Kinds
        /\ NoPatternMatches => response.kind = "unknown"

\* C12 amended: the classifier returns one kind for every error, and
\* 'unknown' exactly when no pattern matches the text and the error is of
\* none of the runtime categories.
C12_UnknownByDefault ==
    Classified =>
        /\ response.kind \in Kinds
        /\ (response.kind = "unknown") = (NoPatternMatches /\ ~InCategory)

C12_Witness ==
    /\ Classified
    /\ request.erro = Err("ValueError", <<"unexpected">>)
    /\ response.kind = "unknown"

\* the kind the runtime category of the error stands for
CategoryOf(cls) ==
    CASE cls \in {"IMAP4.error", "IMAP4.abort"} -> "imap_protocol"
      [] cls = "SSLError" -> "ssl_error"
      [] cls = "timeout" -> "timeout"
      [] cls = "ConnectionRefusedError" -> "connection_refused"
      [] cls = "OSError" -> "socket_error"
      [] OTHER -> "unknown"

\* C13: when no pattern matches the text the kind is that of the runtime
\* category: protocol error, TLS error, timeout, socket error,
\* connection-refused, else unknown.
C13_CategoryFallback ==
    (Classified /\ NoPatternMatches) => response.kind = CategoryOf(request.erro.cls)

\* C14: the kind is that of the first pattern, in the order of
\* ERROR_PATTERNS, found in the text; no later pattern and no runtime
\* category is consulted.
C14_FirstPatternWins ==
    Classified =>
        \A i \in 1..Len(ERROR_PATTERNS) :
            (Matches(i) /\ \A j \in 1..(i - 1) : ~Matches(j))
                => response.kind = ERROR_PATTERNS[i].kind

C14_Witness ==
    /\ Classified
    /\ request.erro = Err("timeout", <<"SSL", "; ", "certificate", " ", "verify", " ", "failed">>)
    /\ response.kind = "ssl_certificate"

Diagnosed == handler = "diagnosticar_erro_imap" /\ ~response.raised

\* signature i of the catalog is in the text of the diagnosed error
SigIn(catalogo, i) == Contains(Lower(request.erro.text), Lower(catalogo[i].sig))

NoSigIn(catalogo) == \A i \in 1..Len(catalogo) : ~SigIn(catalogo, i)

\* cause and solutions are those of the first signature of the catalog
\* that is in the text
FirstSigGiven(catalogo) ==
    \A i \in 1..Len(catalogo) :
        (SigIn(catalogo, i) /\ \A j \in 1..(i - 1) : ~SigIn(catalogo, j))
            => /\ response.ret.causa = catalogo[i].causa
               /\ response.ret.solucoes = catalogo[i].solucao

\* C15: cause and solutions come from the first signature of the provider's
\* catalog in the text; failing that and the provider not being generic,
\* from the first of the generic catalog; failing that, they are the default
\* cause with three solutions.  The solutions are never empty.
C15_CatalogFallbackChain ==
    Diagnosed =>
        LET own == obter_catalogo_provedor(response.ret.provedor)
        IN  /\ FirstSigGiven(own)
            /\ (NoSigIn(own) /\ response.ret.provedor # "generic")
                  => FirstSigGiven(GENERIC_ERRORS)
            /\ (NoSigIn(own) /\ NoSigIn(GENERIC_ERRORS))
                  => /\ response.ret.causa = "Erro IMAP nao classificado"
                     /\ Len(response.ret.solucoes) = 3
            /\ Len(response.ret.solucoes) > 0

C15_Witness ==
    /\ Diagnosed
    /\ response.ret.provedor = "gmail"
    /\ request.erro.text = <<"timeout">>
    /\ response.ret.causa = "Tempo limite excedido na conexao IMAP"

Sanitized == handler = "sanitizar_erro_imap" /\ ~response.raised

AppPasswordGuidance == <<"senha de aplicativo">>

\* C16: 'Invalid credentials' from imap.gmail.com gives provider gmail, kind
\* credentials, a message naming Gmail with the app-password guidance and
\* some solutions; a credentials message has the app-password guidance
\* exactly when the provider is gmail.
C16_GmailCredentialsGuidance ==
    Sanitized =>
        LET r == response.ret
        IN  /\ (/\ request.erro.text = <<"Invalid", " ", "credentials">>
                /\ request.host = <<"imap", ".", "gmail", ".", "com">>)
                  => /\ r.technical_details.provider = "gmail"
                     /\ r.error_type = "credentials"
                     /\ Contains(r.message, <<"Gmail">>)
                     /\ Contains(r.message, AppPasswordGuidance)
                     /\ Len(r.solutions) > 0
            /\ r.error_type = "credentials"
                  => (Contains(r.message, AppPasswordGuidance)
                         = (r.technical_details.provider = "gmail"))

C16_Witness ==
    /\ Sanitized
    /\ request.erro.text = <<"Invalid", " ", "credentials">>
    /\ request.host = <<"imap", ".", "gmail", ".", "com">>
    /\ Contains(response.ret.message, AppPasswordGuidance)

\* the common issue of the text, by the four heuristics in their order
CommonIssue(text) ==
    LET has(w) == Contains(Lower(text), w)
    IN  IF has(<<"certificate">>) /\ has(<<"verify">>) THEN "certificado_ssl"
        ELSE IF (has(<<"access">>) /\ has(<<"denied">>)) \/ has(<<"block", "ed">>)
        THEN "bloqueio_acesso"
        ELSE IF has(<<"too", " ", "many">>) \/ has(<<"rate">>) \/ has(<<"limit">>)
        THEN "rate_limiting"
        ELSE IF has(<<"resolve">>) \/ has(<<"dns">>) THEN "problema_dns"
        ELSE "none"

\* C17: error_type, message, solutions and technical_details are those of
\* the diagnosis whether or not a common issue is found; common_issue is
\* present exactly when one of the four heuristics applies, with the type of
\* the first that does.
C17_CommonIssueIsAddition ==
    Sanitized =>
        LET r == response.ret
            d == diagnosticar_erro_imap(request.erro, request.host, request.email)
            issue == CommonIssue(request.erro.text)
        IN  /\ r.error_type = d.tipo_erro
            /\ r.message = gerar_mensagem_amigavel(d)
            /\ r.solutions = d.solucoes
            /\ r.technical_details = [provider |-> d.provedor,
                                      error_class |-> request.erro.cls]
            /\ ("common_issue" \in DOMAIN r) = (issue # "none")
            /\ issue # "none" => r.common_issue.type = issue
            /\ DOMAIN r \subseteq {"error_type", "message", "solutions",
                                   "technical_details", "common_issue"}

C17_Witness ==
    /\ Sanitized
    /\ request.erro.text = <<"certificate", " ", "verify", " ", "failed", "; ",
                             "access", " ", "denied">>
    /\ response.ret.common_issue.type = "certificado_ssl"
    /\ Len(response.ret.solutions) = 3

Detecting == handler = "detect_provider_config"

\* the domain of the address whose provider is detected
Domain == Lower(AfterLastAt(request.email))

InDomain(w) == Contains(Domain, <<w>>)

InExchange(w) == env.mx.k = "ok" /\ Contains(env.mx.exchange, <<w>>)

KnownDomain == \E w \in {"gmail", "outlook", "hotmail", "live", "yahoo"} : InDomain(w)

KnownExchange == \E w \in {"google", "gmail", "outlook", "microsoft", "yahoo"} : InExchange(w)

\* C18: every address gets a profile with an IMAP and an SMTP endpoint; when
\* the domain names no known provider and the MX lookup raises or names
\* none, it is imap.<domain>:993 secure and smtp.<domain>:587 STARTTLS,
\* tagged detected = auto.
C18_AlwaysAProfile ==
    Detecting =>
        LET r == response.ret
        IN  /\ {"imap", "smtp"} \subseteq DOMAIN r
            /\ {"host", "port", "secure"} \subseteq DOMAIN r.imap
            /\ {"host", "port", "secure", "starttls"} \subseteq DOMAIN r.smtp
            /\ (~KnownDomain /\ ~KnownExchange)
                  => r = [imap |-> [host |-> <<"imap", ".">> \o Domain, port |-> 993,
                                    secure |-> TRUE],
                          smtp |-> [host |-> <<"smtp", ".">> \o Domain, port |-> 587,
                                    secure |-> FALSE, starttls |-> TRUE],
                          detected |-> "auto"]

C18_Witness ==
    /\ Detecting
    /\ env.mx.k = "raise"
    /\ request.email = <<"a", "@", "b", ".", "com">>
    /\ response.ret.imap = [host |-> <<"imap", ".", "b", ".", "com">>, port |-> 993,
                            secure |-> TRUE]

\* C19: the profile is Gmail's for gmail in the domain, else Outlook's for
\* outlook, hotmail or live, else Yahoo's for yahoo, else by the MX record
\* (google or gmail, then outlook or microsoft, then yahoo), else the
\* default; the MX lookup is made only when the domain names none.
C19_DetectionPrecedence ==
    Detecting =>
        /\ response.ret =
              IF InDomain("gmail") THEN KNOWN_PROVIDERS.gmail
              ELSE IF InDomain("outlook") \/ InDomain("hotmail") \/ InDomain("live")
              THEN KNOWN_PROVIDERS.outlook
              ELSE IF InDomain("yahoo") THEN KNOWN_PROVIDERS.yahoo
              ELSE IF InExchange("google") \/ InExchange("gmail") THEN KNOWN_PROVIDERS.gmail
              ELSE IF InExchange("outlook") \/ InExchange("microsoft")
              THEN KNOWN_PROVIDERS.outlook
              ELSE IF InExchange("yahoo") THEN KNOWN_PROVIDERS.yahoo
              ELSE DefaultProfile(Domain)
        /\ (env.mx.k # "na") = ~KnownDomain
        /\ response.mx_queried = ~KnownDomain

C19_Witness ==
    /\ Detecting
    /\ request.email = <<"u", "@", "yahoo", ".", "gmail", ".", "com">>
    /\ response.ret = KNOWN_PROVIDERS.gmail
    /\ env.mx.k = "na"

\* the endpoint fields of a test-connection request
EndpointFields == {"imapHost", "imapPort", "smtpHost", "smtpPort"}

\* the provider directory is consulted for the pending request
Consulted == ~(EndpointFields \subseteq DOMAIN request) \/ Get(request, "autodetect", TRUE)

\* C20: the provider directory is consulted exactly when an endpoint field
\* is missing or autodetect is not false; every field the request supplies
\* is used as supplied and only the others take the detected value; with the
\* four fields supplied and autodetect false there is no MX query.
C20_SuppliedFieldsOverride ==
    (handler = "test_connection" /\ response.status # 400) =>
        LET det == detect_provider_config(request.email, env.mx).ret
            port(k, d) == IF k \in DOMAIN request THEN request[k].v ELSE d
        IN  /\ (Called(ops, "dns") # {}) = (Consulted /\ DomainProvider(Domain) = "none")
            /\ ~Consulted => env.mx.k = "na"
            /\ (Verified /\ Consulted) =>
                  /\ response.body.details.detected_settings.imap =
                        [host |-> Get(request, "imapHost", det.imap.host),
                         port |-> port("imapPort", det.imap.port),
                         secure |-> Get(request, "imapSecure", det.imap.secure)]
                  /\ response.body.details.detected_settings.smtp =
                        [host |-> Get(request, "smtpHost", det.smtp.host),
                         port |-> port("smtpPort", det.smtp.port),
                         secure |-> Get(request, "smtpSecure", det.smtp.secure),
                         starttls |-> Get(request, "smtpStartTLS", det.smtp.starttls)]
            /\ (Verified /\ ~Consulted) =>
                  /\ response.body.details.detected_settings.imap.host = request.imapHost
                  /\ response.body.details.detected_settings.imap.port = request.imapPort.v
                  /\ response.body.details.detected_settings.smtp.host = request.smtpHost
                  /\ response.body.details.detected_settings.smtp.port = request.smtpPort.v

C20_Witness ==
    /\ Verified
    /\ EndpointFields \subseteq DOMAIN request
    /\ "autodetect" \notin DOMAIN request
    /\ Called(ops, "dns") # {}
    /\ response.body.details.detected_settings.imap.host = request.imapHost
    /\ response.body.details.detected_settings.smtp.starttls = request.smtpStartTLS

(***************************************************************************)
(* Properties of the timeouts, the introspection and the protocol steps    *)
(***************************************************************************)

\* the bound the caller of the pending request supplied, or the default
RequestedTimeout == Get(request, "timeout", Num(DEFAULT_TIMEOUT)).v

\* C23: the DNS check, the TCP connect and the opening of the protocol
\* session of a verification request are all given the timeout the caller
\* supplied (the default when none), never another bound and never none.
C23_UniformTimeout ==
    (handler \in {"test_connection", "imap_diagnostic"} /\ response.status = 200) =>
        \A i \in 1..Len(ops) :
            FieldOf(ops[i].op) \in {"dns", "tcp", "open"} => ops[i].t = RequestedTimeout

Introspected == handler = "imap_diagnostic" /\ response.status = 200

\* C24: once the session of teste_imap_especifico is open, a test of type
\* capabilities or all returns the capability tokens, and a test of type
\* folders or all logs in, lists the folders and returns their names.
C24_IntrospectionWhenRequested ==
    (Introspected /\ env.diag.open.k = "ok") =>
        LET body == response.body
            tt == body.test_type
        IN  /\ tt \in {"capabilities", "all"}
                  => /\ body.server_capabilities = env.diag.caps
                     /\ "server_features" \in DOMAIN body
            /\ tt \in {"folders", "all"}
                  => /\ Pos("diag", "login") # {}
                     /\ env.diag.login.k = "ok" => Pos("diag", "list") # {}
                     /\ env.diag.list.k = "OK"
                           => /\ "folders" \in DOMAIN body
                              /\ body.folders.names = ParseMailboxes(env.diag.boxes)

\* the settings the SMTP driver of the pending response was run with
SmtpSettings == response.body.details.detected_settings.smtp

\* the calls of the SMTP driver after its DNS and TCP checks, in order
SmtpSteps ==
    LET idx == {i \in 1..Len(ops) : ops[i].p = "smtp" /\ ops[i].op \notin {"dns", "tcp"}}
        nth(k) == CHOOSE i \in idx : Cardinality({j \in idx : j < i}) = k - 1
    IN  [k \in 1..Cardinality(idx) |-> ops[nth(k)].op]

IsPrefix(s, t) == Len(s) <= Len(t) /\ SubSeq(t, 1, Len(s)) = s

\* C25: the SMTP driver issues STARTTLS exactly when starttls is set and
\* secure is not; its steps are then EHLO, STARTTLS, EHLO, LOGIN in that
\* order and a failed STARTTLS is followed by no login; with secure set the
\* session is opened over TLS and STARTTLS is never issued.
C25_StarttlsBeforeLogin ==
    (Verified /\ Called(ops, "smtp") # {}) =>
        LET upgrade == SmtpSettings.starttls /\ ~SmtpSettings.secure
            first == IF SmtpSettings.secure THEN "open_ssl" ELSE "open"
            full == IF upgrade THEN <<first, "ehlo", "starttls", "ehlo", "login", "quit">>
                    ELSE <<first, "ehlo", "login", "quit">>
        IN  /\ IsPrefix(SmtpSteps, full)
            /\ env.smtp.ehlo.k = "ok" => (("starttls" \in Called(ops, "smtp")) = upgrade)
            /\ env.smtp.starttls.k = "raise" => "login" \notin Called(ops, "smtp")
            /\ "login" \in Called(ops, "smtp")
                  => (upgrade => env.smtp.starttls.k = "ok" /\ env.smtp.ehlo2.k = "ok")

C25_Witness ==
    /\ Verified
    /\ SmtpSteps = <<"open", "ehlo", "starttls", "ehlo", "login", "quit">>
    /\ DriverResult("smtp").success

\* C26: a result of teste_imap_especifico that carries a diagnosis of a
\* caught exception has success false, also when the exception came after
\* the login.
C26_SuccessExcludesError ==
    (Introspected /\ response.body.diagnostics # NoDiagnostics) => ~response.body.success

\* C27: in a failed result of test_imap_connection that carries
\* diagnostic_info, error_type equals diagnostic_info.error_type.
C27_ErrorTypeAgrees ==
    (DriverRan("imap") /\ "diagnostic_info" \in DOMAIN DriverResult("imap")) =>
        DriverResult("imap").error_type = DriverResult("imap").diagnostic_info.error_type

\* C28: diagnosticar_erro_imap and sanitizar_erro_imap return for every
\* error whether host and email are given or None, and with both None the
\* provider is generic.
C28_NeverRaises ==
    handler \in {"diagnosticar_erro_imap", "sanitizar_erro_imap"} =>
        /\ ~response.raised
        /\ (request.host = None /\ request.email = None)
              => "generic" = IF handler = "diagnosticar_erro_imap"
                             THEN response.ret.provedor
                             ELSE response.ret.technical_details.provider

\* C29: test_imap_connection reports success only when the login succeeded
\* and LIST and SELECT INBOX were both answered OK.
C29_SuccessNeedsSelectOk ==
    (DriverRan("imap") /\ DriverResult("imap").success) =>
        /\ env.imap.login.k = "ok"
        /\ env.imap.list.k = "OK"
        /\ env.imap.select.k = "OK"

(***************************************************************************)
(* Properties of repeated calls and of the process-wide tables             *)
(***************************************************************************)

C30_ProviderNameAgreesWithSettings ==
    (handler = "verify_email_domain" /\ response.status = 200) =>
        LET d == response.body.detectedSettings
        IN  /\ d.provider \in {"Gmail", "Gmail (G Suite)"}
                  => d.imap.host = <<"imap", ".", "gmail", ".", "com">>
            /\ d.provider \in {"Outlook/Microsoft", "Microsoft 365"}
                  => d.imap.host = <<"outlook", ".", "office365", ".", "com">>
            /\ d.provider = "Yahoo"
                  => d.imap.host = <<"imap", ".", "mail", ".", "yahoo", ".", "com">>

====
